---- MODULE Spec2Model ----
(***************************************************************************)
(* A model of the OAuth provider orchestrator (OAuthProvider) and of the   *)
(* managers it drives.  Every handler is a little process: one action per  *)
(* suspension point (await) that touches a store, so that two requests     *)
(* served concurrently interleave exactly at the store calls.              *)
(*                                                                         *)
(* The orchestrator is translated from its source.  The managers it calls  *)
(* (RequestManager, TokenManager, ReplayManager, AccountManager,           *)
(* ClientManager, OAuthVerifier) are modelled from their contracts; their  *)
(* operators carry the prefix of the manager (RequestManager_get, ...).    *)
(***************************************************************************)
EXTENDS Integers, Sequences, FiniteSets, TLC

\* ------------------------------------------------------------------ bounds

\* Handler invocations that may be in flight at the same time.
MaxCalls == 2
\* Authorization requests ever created (request_uri values are never reused).
MaxRequests == 2
\* Authorization codes ever generated.
MaxCodes == 2
\* Token ids ever generated.
MaxTokens == 3
\* Clock ticks.
MaxTime == 2

\* ------------------------------------------------------------------ values

\* An absent optional string (undefined / null in the source).
NULL == "null"
\* An absent request_uri, code or token id.
NoId == 0

CallIds == 1 .. MaxCalls
ClientIds == {"c1", "c2"}
DeviceIds == {"d1", "d2"}
Subs == {"alice", "bob"}
Jkts == {"J1", "J2"}

\* Lifetimes, in clock ticks.
PAR_EXPIRES_IN == 1
AUTHORIZATION_INACTIVITY_TIMEOUT == 1
AUTHENTICATION_MAX_AGE == 2

\* ------------------------------------------------------------------ errors

\* An OAuthError: its error code, whether it is an instance of
\* AccessDeniedError (a user-interaction error), the redirect_uri and
\* state of the parameters an AccessDeniedError carries, and its
\* error_description (the message of the class of the error, unless the
\* error was built from another one).
OAuthError(code) ==
  [error |-> code, accessDenied |-> FALSE, redirect_uri |-> NULL, state |-> NULL,
   error_description |-> code]
InvalidRequestError == OAuthError("invalid_request")
InvalidGrantError == OAuthError("invalid_grant")
InvalidClientError == OAuthError("invalid_client")
UnauthorizedClientError == OAuthError("unauthorized_client")
InvalidTokenError == OAuthError("invalid_token")
InvalidDpopProofError == OAuthError("invalid_dpop_proof")
ServerError == OAuthError("server_error")
AccessDeniedError(parameters, code) ==
  [error |-> code, accessDenied |-> TRUE, redirect_uri |-> parameters.redirect_uri,
   state |-> IF "state" \in DOMAIN parameters THEN parameters.state ELSE NULL,
   error_description |-> code]
InvalidParametersError(parameters) ==
  [AccessDeniedError(parameters, "invalid_request")
     EXCEPT !.error_description = "invalid_parameters"]
LoginRequiredError(parameters) == AccessDeniedError(parameters, "login_required")
ConsentRequiredError(parameters) == AccessDeniedError(parameters, "consent_required")
AccountSelectionRequiredError(parameters) ==
  AccessDeniedError(parameters, "account_selection_required")
NoError == OAuthError(NULL)

\* buildErrorStatus: the HTTP status of an error response, 401 for the
\* errors that come with a WWW-Authenticate header and 400 for the others.
buildErrorStatus(err) ==
  IF err.error \in {"invalid_token", "invalid_dpop_proof"} THEN 401 ELSE 400

\* AccessDeniedError.from(parameters, cause): an AccessDeniedError is kept as
\* it is; any other OAuthError keeps its error code inside a new
\* AccessDeniedError for the parameters.
AccessDeniedError_from(parameters, err) ==
  IF err.accessDenied THEN err
  ELSE [AccessDeniedError(parameters, err.error)
          EXCEPT !.error_description = err.error_description]

\* ----------------------------------------------------------------- clients

\* A native client, a client the server treats as first-party, and a client
\* whose metadata lists the password grant and not the refresh_token grant;
\* the clients of ClientIds are third-party web clients.
NativeClientIds == {"n1"}
FirstPartyClientIds == {"f1"}
PasswordClientIds == {"g1"}
KnownClientIds ==
  ClientIds \cup NativeClientIds \cup FirstPartyClientIds \cup PasswordClientIds

\* Client metadata, as ClientManager.getClient resolves it.
ClientMetadata(id) ==
  [ application_type |-> IF id \in NativeClientIds THEN "native" ELSE "web",
    grant_types |->
      IF id \in PasswordClientIds THEN {"authorization_code", "password"}
      ELSE {"authorization_code", "refresh_token"},
    isFirstParty |-> id \in FirstPartyClientIds ]

\* ClientManager.getClient: the client, or an error for an unknown client id.
ClientManager_getClient(client_id) ==
  IF client_id \in KnownClientIds THEN NoError ELSE InvalidClientError

\* ClientAuth: how the client authenticated on this request.
ClientAuthNone == [method |-> "none", jkt |-> NULL]
ClientAuthJwt(jkt) == [method |-> "private_key_jwt", jkt |-> jkt]

\* Client credentials, as the schema parses them: the none method carries a
\* client_id only, private_key_jwt a client assertion (its signing key's
\* thumbprint, its jti, and whether its signature and claims verify).
CredentialsNone(client_id) ==
  [client_id |-> client_id, method |-> "none", jti |-> NULL, jkt |-> NULL,
   valid |-> TRUE]
CredentialsJwt(client_id, jti, jkt, valid) ==
  [client_id |-> client_id, method |-> "private_key_jwt", jti |-> jti,
   jkt |-> jkt, valid |-> valid]

\* Client.verifyCredentials: (clientAuth, nonce), the nonce being the jti of
\* the client assertion and null for the none method.
Client_verifyCredentials(credentials) ==
  IF credentials.method = "none"
  THEN [error |-> NoError, clientAuth |-> ClientAuthNone, nonce |-> NULL]
  ELSE IF ~credentials.valid \/ credentials.jti = NULL
  THEN [error |-> InvalidClientError, clientAuth |-> ClientAuthNone, nonce |-> NULL]
  ELSE [error |-> NoError, clientAuth |-> ClientAuthJwt(credentials.jkt),
        nonce |-> credentials.jti]

\* -------------------------------------------------------------------- PKCE

CodeVerifiers == {"v1", "v2"}

\* SHA-256 followed by base64url, on the verifiers of the model.
sha256(v) == IF v = "v1" THEN "h1" ELSE IF v = "v2" THEN "h2" ELSE "h0"

\* The code_challenge a verifier answers under a code_challenge_method.
CodeChallengeOf(method, v) == IF method = "S256" THEN sha256(v) ELSE v

\* ------------------------------------------------------ request parameters

\* OAuthAuthorizationRequestParameters, the fields the orchestrator reads.
Parameters(challenge, method, dpop_jkt, prompt, login_hint) ==
  [ code_challenge |-> challenge, code_challenge_method |-> method,
    dpop_jkt |-> dpop_jkt, prompt |-> prompt, login_hint |-> login_hint,
    scope |-> "atproto", redirect_uri |-> "cb", state |-> "s1" ]

\* A request object (JAR): the jti claim and parameters of its payload, and
\* whether it is signed (a protected header with its kid, the key's
\* thumbprint) and verifies against the client's keys.
RequestObject(jti, parameters, signed, kid, valid) ==
  [ jti |-> jti, parameters |-> parameters, signed |-> signed, kid |-> kid,
    jkt |-> IF signed THEN "K1" ELSE NULL, valid |-> valid ]

\* ------------------------------------------------------------------- state

VARIABLES
  now,            \* the clock (Date.now()), in ticks
  requestStore,   \* RequestStore: request id -> authorization request data
  nextUri,        \* the next fresh request_uri
  nextCode,       \* the next fresh authorization code
  tokenStore,     \* TokenStore: token id -> token data
  nextToken,      \* the next fresh token id
  replayStore,    \* ReplayStore: the (namespace, key) pairs seen
  accountStore,   \* AccountStore: (deviceId, sub) -> DeviceAccountInfo
  calls,          \* the handler invocations in flight: call id -> frame
  log             \* what the server has answered successfully so far

vars ==
  << now, requestStore, nextUri, nextCode, tokenStore, nextToken,
     replayStore, accountStore, calls, log >>

stores ==
  << requestStore, nextUri, nextCode, tokenStore, nextToken, replayStore,
     accountStore >>

Idle == [op |-> "idle", pc |-> "idle"]
NoValue == [none |-> TRUE]

\* The frame of call c moves to f; the other frames stay.
Goto(c, f) == calls' = [calls EXCEPT ![c] = f]

\* The call of handler op with arguments a, served in frame c, ends with an
\* error / with a value.
ThrowAs(c, op, a, err) ==
  Goto(c, [op |-> op, pc |-> "done", args |-> a, error |-> err, value |-> NoValue])
ReturnAs(c, op, a, val) ==
  Goto(c, [op |-> op, pc |-> "done", args |-> a, error |-> NoError, value |-> val])
Throw(c, err) == ThrowAs(c, calls[c].op, calls[c].args, err)
Return(c, val) == ReturnAs(c, calls[c].op, calls[c].args, val)

\* A request is received and served in frame c, the lowest free frame.
Free(c) ==
  /\ calls[c].op = "idle"
  /\ \A d \in CallIds : d < c => calls[d].op # "idle"

At(c, op, pc) == calls[c].op = op /\ calls[c].pc = pc
Done(c, op) == At(c, op, "done")
Failed(c, op) == Done(c, op) /\ calls[c].error.error # NULL
Succeeded(c, op) == Done(c, op) /\ calls[c].error.error = NULL

\* The provider as constructed over an account store that holds these
\* device sessions, and over empty request, token and replay stores.
InitWith(sessions) ==
  /\ now = 0
  /\ requestStore = << >>
  /\ nextUri = 1
  /\ nextCode = 1
  /\ tokenStore = << >>
  /\ nextToken = 1
  /\ replayStore = {}
  /\ accountStore = sessions
  /\ calls = [c \in CallIds |-> Idle]
  /\ log = {}

Init == InitWith(<< >>)

\* Time passes.
Tick ==
  /\ now < MaxTime
  /\ now' = now + 1
  /\ UNCHANGED << stores, calls, log >>

\* What the log keeps of a created authorization request: the endpoint that
\* created it, its client, the jti of its request object, the parameters the
\* client sent, the thumbprint of the DPoP proof of the request and the
\* time of its creation.
RequestCreated(via, uri, client_id, jar, parameters, dpopJkt) ==
  [ kind |-> "request", via |-> via, uri |-> uri, client_id |-> client_id,
    jar |-> jar, code_challenge |-> parameters.code_challenge,
    code_challenge_method |-> parameters.code_challenge_method,
    dpop_jkt |-> parameters.dpop_jkt, proof |-> dpopJkt, at |-> now,
    scope |-> parameters.scope, login_hint |-> parameters.login_hint ]

\* The response of call c has been sent: its frame is free again.
Respond(c) ==
  /\ calls[c].pc = "done"
  /\ Goto(c, Idle)
  /\ UNCHANGED << now, stores, log >>

\* ---------------------------------------------------------- ReplayManager

\* ReplayManager.uniqueX: the key of a nonce, salted by its namespace.
ReplayKey(namespace, scope, nonce) == << namespace, scope, nonce >>

\* ------------------------------------------------------ authenticateClient

\* authenticateClient answering a reused jti with invalid_client.
authenticateClient_invalidClient(credentials) ==
  LET got == ClientManager_getClient(credentials.client_id)
      ver == Client_verifyCredentials(credentials)
      key == ReplayKey("client_assertion", credentials.client_id, ver.nonce)
      fail(err) == [error |-> err, clientAuth |-> ClientAuthNone,
                    replayStore |-> replayStore]
  IN  IF got.error # NULL THEN fail(got)
      ELSE IF ver.error.error # NULL THEN fail(ver.error)
      ELSE IF /\ ClientMetadata(credentials.client_id).application_type = "native"
              /\ ver.clientAuth.method # "none"
      THEN fail(InvalidGrantError)
      ELSE IF ver.nonce # NULL /\ key \in replayStore
      THEN fail(InvalidClientError)
      ELSE [error |-> NoError, clientAuth |-> ver.clientAuth,
            replayStore |-> IF ver.nonce # NULL THEN replayStore \cup {key}
                            ELSE replayStore]

\* authenticateClient without the uniqueAuth check.
authenticateClient_noReplayCheck(credentials) ==
  LET got == ClientManager_getClient(credentials.client_id)
      ver == Client_verifyCredentials(credentials)
      fail(err) == [error |-> err, clientAuth |-> ClientAuthNone,
                    replayStore |-> replayStore]
  IN  IF got.error # NULL THEN fail(got)
      ELSE IF ver.error.error # NULL THEN fail(ver.error)
      ELSE IF /\ ClientMetadata(credentials.client_id).application_type = "native"
              /\ ver.clientAuth.method # "none"
      THEN fail(InvalidGrantError)
      ELSE [error |-> NoError, clientAuth |-> ver.clientAuth,
            replayStore |-> replayStore]

\* authenticateClient without the policy for native clients.
authenticateClient_anyMethod(credentials) ==
  LET got == ClientManager_getClient(credentials.client_id)
      ver == Client_verifyCredentials(credentials)
      key == ReplayKey("client_assertion", credentials.client_id, ver.nonce)
      fail(err) == [error |-> err, clientAuth |-> ClientAuthNone,
                    replayStore |-> replayStore]
  IN  IF got.error # NULL THEN fail(got)
      ELSE IF ver.error.error # NULL THEN fail(ver.error)
      ELSE IF ver.nonce # NULL /\ key \in replayStore
      THEN fail(InvalidGrantError)
      ELSE [error |-> NoError, clientAuth |-> ver.clientAuth,
            replayStore |-> IF ver.nonce # NULL THEN replayStore \cup {key}
                            ELSE replayStore]

\* authenticateClient(credentials): the client is resolved, its credentials
\* verified; a native client must use the none method; the nonce of the
\* credentials (if any) is accepted once per client (uniqueAuth, a
\* conditional insert).  The result and the replay store it leaves.
authenticateClient(credentials) ==
  LET got == ClientManager_getClient(credentials.client_id)
      ver == Client_verifyCredentials(credentials)
      key == ReplayKey("client_assertion", credentials.client_id, ver.nonce)
      fail(err) == [error |-> err, clientAuth |-> ClientAuthNone,
                    replayStore |-> replayStore]
  IN  IF got.error # NULL THEN fail(got)
      ELSE IF ver.error.error # NULL THEN fail(ver.error)
      ELSE IF /\ ClientMetadata(credentials.client_id).application_type = "native"
              /\ ver.clientAuth.method # "none"
      THEN fail(InvalidGrantError)
      ELSE IF ver.nonce # NULL /\ key \in replayStore
      THEN fail(InvalidGrantError)
      ELSE [error |-> NoError, clientAuth |-> ver.clientAuth,
            replayStore |-> IF ver.nonce # NULL THEN replayStore \cup {key}
                            ELSE replayStore]

\* --------------------------------------------------------------- decodeJAR

\* Client.decodeRequestObject: the request object verified against the
\* client's keys.
Client_decodeRequestObject(request) ==
  IF request.valid THEN NoError ELSE InvalidRequestError

\* decodeJAR without the uniqueJar check.
decodeJAR_noReplayCheck(client_id, request) ==
  LET res == Client_decodeRequestObject(request)
      fail(err) == [error |-> err, payload |-> request.parameters,
                    signed |-> FALSE, jkt |-> NULL, replayStore |-> replayStore]
  IN  IF res.error # NULL THEN fail(res)
      ELSE IF request.jti = NULL THEN fail(InvalidParametersError(request.parameters))
      ELSE IF request.signed /\ request.kid = NULL
      THEN fail(InvalidParametersError(request.parameters))
      ELSE [error |-> NoError, payload |-> request.parameters,
            signed |-> request.signed, jkt |-> request.jkt,
            replayStore |-> replayStore]

\* decodeJAR(client, input): the payload of the request object, which must
\* carry a jti never seen for this client (uniqueJar, a conditional insert)
\* and, when signed, a kid.  The result and the replay store it leaves.
decodeJAR(client_id, request) ==
  LET res == Client_decodeRequestObject(request)
      key == ReplayKey("jar", client_id, request.jti)
      fail(err, store) == [error |-> err, payload |-> request.parameters,
                           signed |-> FALSE, jkt |-> NULL, replayStore |-> store]
  IN  IF res.error # NULL THEN fail(res, replayStore)
      ELSE IF request.jti = NULL
      THEN fail(InvalidParametersError(request.parameters), replayStore)
      ELSE IF key \in replayStore
      THEN fail(InvalidParametersError(request.parameters), replayStore)
      ELSE IF request.signed /\ request.kid = NULL
      THEN fail(InvalidParametersError(request.parameters), replayStore \cup {key})
      ELSE [error |-> NoError, payload |-> request.parameters,
            signed |-> request.signed, jkt |-> request.jkt,
            replayStore |-> replayStore \cup {key}]

\* ---------------------------------------------------------- RequestManager

\* RequestManager.createAuthorizationRequest: the parameters validated (a
\* code_challenge is required; a dpop_jkt parameter must agree with the
\* DPoP proof of the request, which binds the request when the parameter is
\* absent), and the request data to persist: bound to the device when one
\* is given, pending otherwise.
RequestManager_createAuthorizationRequest(client_id, clientAuth, parameters, deviceId, dpopJkt) ==
  IF parameters.code_challenge = NULL
  THEN [error |-> InvalidParametersError(parameters), data |-> NoValue]
  ELSE IF /\ dpopJkt # NULL
          /\ parameters.dpop_jkt # NULL
          /\ parameters.dpop_jkt # dpopJkt
  THEN [error |-> InvalidParametersError(parameters), data |-> NoValue]
  ELSE [ error |-> NoError,
         data |->
           [ clientId |-> client_id,
             clientAuth |-> clientAuth,
             parameters |->
               [parameters EXCEPT !.dpop_jkt =
                  IF parameters.dpop_jkt # NULL THEN parameters.dpop_jkt
                  ELSE dpopJkt],
             deviceId |-> deviceId,
             sub |-> NULL,
             code |-> NoId,
             expiresAt |-> now + PAR_EXPIRES_IN ] ]

\* The store with one more entry / with one entry less.
Put(store, id, data) ==
  [k \in DOMAIN store \cup {id} |-> IF k = id THEN data ELSE store[k]]
Remove(store, id) == [k \in DOMAIN store \ {id} |-> store[k]]

\* Calls in flight that may still create an authorization request.
Creating ==
  {c \in CallIds : \/ calls[c].op = "par" /\ calls[c].pc # "done"
                   \/ At(c, "authorize", "createAuthorizationRequest")}

\* One more authorization request may be created, up to limit in all.
MayCreate(limit) == nextUri + Cardinality(Creating) <= limit

\* ---------------------------------------------- pushedAuthorizationRequest

\* A catch that throws every error again.
parCatch_rethrow(err) == err

\* The catch of pushedAuthorizationRequest: user-interaction errors are
\* never returned by PAR, they become an InvalidRequestError with the
\* error_description of the error caught.
parCatch(err) ==
  IF err.accessDenied
  THEN [InvalidRequestError EXCEPT !.error_description = err.error_description]
  ELSE err

\* POST /oauth/par is received,
\* and the client is authenticated.
pushedAuthorizationRequest(c, Credentials, Requests, Proofs) ==
  /\ Free(c)
  /\ MayCreate(MaxRequests)
  /\ \E credentials \in Credentials, authorizationRequest \in Requests,
        dpopJkt \in Proofs :
     LET a == [credentials |-> credentials,
               authorizationRequest |-> authorizationRequest,
               dpopJkt |-> dpopJkt]
         r == authenticateClient(credentials)
     IN  /\ replayStore' = r.replayStore
         /\ IF r.error.error # NULL THEN ThrowAs(c, "par", a, parCatch(r.error))
            ELSE IF "request" \in DOMAIN a.authorizationRequest
            THEN Goto(c, [op |-> "par", pc |-> "decodeJAR", args |-> a,
                          clientAuth |-> r.clientAuth])
            ELSE Goto(c, [op |-> "par", pc |-> "createAuthorizationRequest",
                          args |-> a, clientAuth |-> r.clientAuth,
                          parameters |-> a.authorizationRequest,
                          jar |-> NULL])
  /\ UNCHANGED << now, requestStore, nextUri, nextCode, tokenStore, nextToken,
                  accountStore, log >>

pushedAuthorizationRequest_decodeJAR(c) ==
  /\ At(c, "par", "decodeJAR")
  /\ LET a == calls[c].args
         r == decodeJAR(a.credentials.client_id, a.authorizationRequest.request)
     IN  /\ replayStore' = r.replayStore
         /\ IF r.error.error # NULL THEN Throw(c, parCatch(r.error))
            ELSE Goto(c, [op |-> "par", pc |-> "createAuthorizationRequest",
                          args |-> a, clientAuth |-> calls[c].clientAuth,
                          parameters |-> r.payload,
                          jar |-> a.authorizationRequest.request.jti])
  /\ UNCHANGED << now, requestStore, nextUri, nextCode, tokenStore, nextToken,
                  accountStore, log >>

\* pushedAuthorizationRequest creating the request without the DPoP proof.
pushedAuthorizationRequest_createAuthorizationRequest_noProof(c) ==
  /\ At(c, "par", "createAuthorizationRequest")
  /\ LET a == calls[c].args
         r == RequestManager_createAuthorizationRequest(
                a.credentials.client_id, calls[c].clientAuth,
                calls[c].parameters, NULL, NULL)
     IN  IF r.error.error # NULL
         THEN /\ Throw(c, parCatch(r.error))
              /\ UNCHANGED << requestStore, nextUri, log >>
         ELSE /\ requestStore' = Put(requestStore, nextUri, r.data)
              /\ nextUri' = nextUri + 1
              /\ log' = log \cup {RequestCreated("par", nextUri,
                                     a.credentials.client_id, calls[c].jar,
                                     calls[c].parameters, a.dpopJkt)}
              /\ Return(c, [request_uri |-> nextUri,
                            expires_in |-> r.data.expiresAt - now])
  /\ UNCHANGED << now, nextCode, tokenStore, nextToken, replayStore,
                  accountStore >>

\* requestManager.createAuthorizationRequest, with the key of the DPoP proof.
pushedAuthorizationRequest_createAuthorizationRequest(c) ==
  /\ At(c, "par", "createAuthorizationRequest")
  /\ LET a == calls[c].args
         r == RequestManager_createAuthorizationRequest(
                a.credentials.client_id, calls[c].clientAuth,
                calls[c].parameters, NULL, a.dpopJkt)
     IN  IF r.error.error # NULL
         THEN /\ Throw(c, parCatch(r.error))
              /\ UNCHANGED << requestStore, nextUri, log >>
         ELSE /\ requestStore' = Put(requestStore, nextUri, r.data)
              /\ nextUri' = nextUri + 1
              /\ log' = log \cup {RequestCreated("par", nextUri,
                                     a.credentials.client_id, calls[c].jar,
                                     calls[c].parameters, a.dpopJkt)}
              /\ Return(c, [request_uri |-> nextUri,
                            expires_in |-> r.data.expiresAt - now])
  /\ UNCHANGED << now, nextCode, tokenStore, nextToken, replayStore,
                  accountStore >>

\* ---------------------------------------------- RequestManager (continued)

\* RequestManager.get without the check of the device.
RequestManager_get_anyDevice(uri, deviceId, client_id) ==
  IF uri \notin DOMAIN requestStore
  THEN [error |-> InvalidGrantError, data |-> NoValue]
  ELSE LET data == requestStore[uri] IN
    IF data.expiresAt < now
    THEN [error |-> InvalidGrantError, data |-> NoValue]
    ELSE IF client_id # NULL /\ data.clientId # client_id
    THEN [error |-> InvalidGrantError, data |-> NoValue]
    ELSE [error |-> NoError,
          data |-> [data EXCEPT !.deviceId = deviceId,
                                !.expiresAt = now + AUTHORIZATION_INACTIVITY_TIMEOUT]]

\* RequestManager.get(uri, deviceId, clientId?): the request must exist, be
\* unexpired, belong to the expected client (when one is given) and not be
\* bound to another device.  A successful retrieval binds a pending request
\* to the device and slides its expiry.  The result and the data it leaves.
RequestManager_get(uri, deviceId, client_id) ==
  IF uri \notin DOMAIN requestStore
  THEN [error |-> InvalidGrantError, data |-> NoValue]
  ELSE LET data == requestStore[uri] IN
    IF data.expiresAt < now
    THEN [error |-> InvalidGrantError, data |-> NoValue]
    ELSE IF client_id # NULL /\ data.clientId # client_id
    THEN [error |-> InvalidGrantError, data |-> NoValue]
    ELSE IF data.deviceId # NULL /\ data.deviceId # deviceId
    THEN [error |-> InvalidGrantError, data |-> NoValue]
    ELSE [error |-> NoError,
          data |-> [data EXCEPT !.deviceId = deviceId,
                                !.expiresAt = now + AUTHORIZATION_INACTIVITY_TIMEOUT]]

\* RequestManager.setAuthorized without the check that the request is not
\* authorized yet.
RequestManager_setAuthorized_again(uri, sub, deviceId) ==
  IF uri \notin DOMAIN requestStore
  THEN [error |-> InvalidGrantError, data |-> NoValue]
  ELSE LET data == requestStore[uri] IN
    IF \/ data.expiresAt < now
       \/ data.deviceId # deviceId
    THEN [error |-> InvalidGrantError, data |-> NoValue]
    ELSE [error |-> NoError,
          data |-> [data EXCEPT !.sub = sub, !.code = nextCode,
                                !.expiresAt = now + AUTHORIZATION_INACTIVITY_TIMEOUT]]

\* RequestManager.setAuthorized(uri, client, account, deviceId): a fresh code
\* for a request that exists, is unexpired, is bound to this device and is
\* not authorized yet; invalid_grant otherwise.
RequestManager_setAuthorized(uri, sub, deviceId) ==
  IF uri \notin DOMAIN requestStore
  THEN [error |-> InvalidGrantError, data |-> NoValue]
  ELSE LET data == requestStore[uri] IN
    IF \/ data.expiresAt < now
       \/ data.deviceId # deviceId
       \/ data.sub # NULL
       \/ data.code # NoId
    THEN [error |-> InvalidGrantError, data |-> NoValue]
    ELSE [error |-> NoError,
          data |-> [data EXCEPT !.sub = sub, !.code = nextCode,
                                !.expiresAt = now + AUTHORIZATION_INACTIVITY_TIMEOUT]]

\* The request a code was issued for (RequestStore.findRequestByCode).
RequestByCode(code) == {u \in DOMAIN requestStore : requestStore[u].code = code}

\* RequestManager.findCode(client, clientAuth, code): the request the code
\* was issued for, which must be the client's, unexpired and authenticated
\* with the same method.  The lookup atomically consumes the request,
\* whatever the outcome.  The result and the request store it leaves.
RequestManager_findCode(client_id, clientAuth, code) ==
  IF RequestByCode(code) = {}
  THEN [error |-> InvalidGrantError, uri |-> NoId, data |-> NoValue,
        requestStore |-> requestStore]
  ELSE LET uri == CHOOSE u \in RequestByCode(code) : TRUE
           data == requestStore[uri]
       IN  IF \/ data.sub = NULL
              \/ data.deviceId = NULL
              \/ data.clientId # client_id
              \/ data.expiresAt < now
              \/ data.clientAuth.method # clientAuth.method
           THEN [error |-> InvalidGrantError, uri |-> uri, data |-> NoValue,
                 requestStore |-> Remove(requestStore, uri)]
           ELSE [error |-> NoError, uri |-> uri, data |-> data,
                 requestStore |-> Remove(requestStore, uri)]

\* ---------------------------------------------------------- AccountManager

\* The accounts of the server.
Account(sub) ==
  [sub |-> sub,
   preferred_username |-> IF sub = "alice" THEN "alice.test" ELSE "bob.test"]

\* AccountManager.list(deviceId): the accounts attached to the device.
AccountManager_list(deviceId) ==
  {sub \in Subs : << deviceId, sub >> \in DOMAIN accountStore}

\* AccountManager.get(deviceId, sub): the account, if attached to the device.
AccountManager_get(deviceId, sub) ==
  IF << deviceId, sub >> \in DOMAIN accountStore
  THEN [error |-> NoError, info |-> accountStore[<< deviceId, sub >>]]
  ELSE [error |-> InvalidRequestError, info |-> NoValue]

\* --------------------------------------------------------------- sessions

\* loginRequired that lets a session of exactly authenticationMaxAge pass.
loginRequired_strict(parameters, info) ==
  LET authAge == now - info.authenticatedAt
  IN  IF authAge < 0 THEN TRUE ELSE authAge > AUTHENTICATION_MAX_AGE

\* loginRequired without the guard against dates in the future.
loginRequired_unguarded(parameters, info) ==
  now - info.authenticatedAt >= AUTHENTICATION_MAX_AGE

\* loginRequired(client, parameters, info): the authentication is older than
\* authenticationMaxAge (or dated in the future).
loginRequired(parameters, info) ==
  LET authAge == now - info.authenticatedAt
  IN  IF authAge < 0 THEN TRUE ELSE authAge >= AUTHENTICATION_MAX_AGE

\* getSessions that asks for consent only when prompt=consent.
getSessions_noConsent(client_id, deviceId, parameters) ==
  LET accounts == AccountManager_list(deviceId)
      hint == parameters.login_hint
      matchesHint(sub) ==
        \/ sub = hint
        \/ Account(sub).preferred_username = hint
  IN  [ sub \in accounts |->
        LET info == accountStore[<< deviceId, sub >>] IN
        [ selected |->
            /\ parameters.prompt # "select_account"
            /\ matchesHint(sub)
            /\ Cardinality({a \in accounts : matchesHint(a)}) = 1,
          loginRequired |->
            parameters.prompt = "login" \/ loginRequired(parameters, info),
          consentRequired |-> parameters.prompt = "consent",
          matchesHint |-> hint = NULL \/ matchesHint(sub) ] ]

\* A getSessions whose consentRequired does not look at the prompt.
getSessions_consentIgnoresPrompt(client_id, deviceId, parameters) ==
  LET accounts == AccountManager_list(deviceId)
      hint == parameters.login_hint
      matchesHint(sub) ==
        \/ sub = hint
        \/ Account(sub).preferred_username = hint
  IN  [ sub \in accounts |->
        LET info == accountStore[<< deviceId, sub >>] IN
        [ selected |->
            /\ parameters.prompt # "select_account"
            /\ matchesHint(sub)
            /\ Cardinality({a \in accounts : matchesHint(a)}) = 1,
          loginRequired |->
            parameters.prompt = "login" \/ loginRequired(parameters, info),
          consentRequired |-> client_id \notin info.authorizedClients,
          matchesHint |-> hint = NULL \/ matchesHint(sub) ] ]

\* A getSessions whose selected does not look at the prompt.
getSessions_selectIgnoresPrompt(client_id, deviceId, parameters) ==
  LET accounts == AccountManager_list(deviceId)
      hint == parameters.login_hint
      matchesHint(sub) ==
        \/ sub = hint
        \/ Account(sub).preferred_username = hint
  IN  [ sub \in accounts |->
        LET info == accountStore[<< deviceId, sub >>] IN
        [ selected |->
            /\ matchesHint(sub)
            /\ Cardinality({a \in accounts : matchesHint(a)}) = 1,
          loginRequired |->
            parameters.prompt = "login" \/ loginRequired(parameters, info),
          consentRequired |->
            \/ parameters.prompt = "consent"
            \/ client_id \notin info.authorizedClients,
          matchesHint |-> hint = NULL \/ matchesHint(sub) ] ]

\* getSessions(client, clientAuth, deviceId, parameters): one session per
\* account of the device.
getSessions(client_id, deviceId, parameters) ==
  LET accounts == AccountManager_list(deviceId)
      hint == parameters.login_hint
      matchesHint(sub) ==
        \/ sub = hint
        \/ Account(sub).preferred_username = hint
  IN  [ sub \in accounts |->
        LET info == accountStore[<< deviceId, sub >>] IN
        [ selected |->
            /\ parameters.prompt # "select_account"
            /\ matchesHint(sub)
            /\ Cardinality({a \in accounts : matchesHint(a)}) = 1,
          loginRequired |->
            parameters.prompt = "login" \/ loginRequired(parameters, info),
          consentRequired |->
            \/ parameters.prompt = "consent"
            \/ client_id \notin info.authorizedClients,
          matchesHint |-> hint = NULL \/ matchesHint(sub) ] ]

\* --------------------------------------------------------------- authorize

\* 'redirect_uri' in query.
QueryHasRedirectUri(query) ==
  "redirect_uri" \in DOMAIN query /\ query.redirect_uri # NULL

\* The accessDeniedCatcher of authorize: when the query holds a redirect_uri,
\* the error is wrapped in an AccessDeniedError for the query.
accessDeniedCatcher(query, err) ==
  IF QueryHasRedirectUri(query) THEN AccessDeniedError_from(query, err) ELSE err

\* sessions.filter((s) => s.matchesHint)
ssoSessions(sessions) == {sub \in DOMAIN sessions : sessions[sub].matchesHint}

\* An authorize that looks at the consent of the single session before it
\* looks at its login.
authorizeDecision_consentFirst(parameters, sessions) ==
  LET sso == ssoSessions(sessions)
      one == CHOOSE sub \in sso : TRUE
      throw(err) == [do |-> "throw", error |-> err, sub |-> NULL]
      approve(sub) == [do |-> "setAuthorized", error |-> NoError, sub |-> sub]
      page == [do |-> "page", error |-> NoError, sub |-> NULL]
  IN  IF parameters.prompt = "none"
      THEN IF Cardinality(sso) > 1
           THEN throw(AccountSelectionRequiredError(parameters))
           ELSE IF Cardinality(sso) < 1
           THEN throw(LoginRequiredError(parameters))
           ELSE IF sessions[one].consentRequired
           THEN throw(ConsentRequiredError(parameters))
           ELSE IF sessions[one].loginRequired
           THEN throw(LoginRequiredError(parameters))
           ELSE approve(one)
      ELSE IF /\ parameters.prompt = NULL
              /\ parameters.login_hint # NULL
              /\ Cardinality(sso) = 1
              /\ ~sessions[one].loginRequired
              /\ ~sessions[one].consentRequired
      THEN approve(one)
      ELSE page

\* An authorize whose automatic approval does not ask for a login_hint.
authorizeDecision_noHint(parameters, sessions) ==
  LET sso == ssoSessions(sessions)
      one == CHOOSE sub \in sso : TRUE
      throw(err) == [do |-> "throw", error |-> err, sub |-> NULL]
      approve(sub) == [do |-> "setAuthorized", error |-> NoError, sub |-> sub]
      page == [do |-> "page", error |-> NoError, sub |-> NULL]
  IN  IF parameters.prompt = "none"
      THEN IF Cardinality(sso) > 1
           THEN throw(AccountSelectionRequiredError(parameters))
           ELSE IF Cardinality(sso) < 1
           THEN throw(LoginRequiredError(parameters))
           ELSE IF sessions[one].loginRequired
           THEN throw(LoginRequiredError(parameters))
           ELSE IF sessions[one].consentRequired
           THEN throw(ConsentRequiredError(parameters))
           ELSE approve(one)
      ELSE IF /\ parameters.prompt = NULL
              /\ Cardinality(sso) = 1
              /\ ~sessions[one].loginRequired
              /\ ~sessions[one].consentRequired
      THEN approve(one)
      ELSE page

\* What authorize does with the sessions of the device: it throws, it
\* authorizes the request for an account (automatic approval), or it returns
\* the authorization page.
authorizeDecision(parameters, sessions) ==
  LET sso == ssoSessions(sessions)
      one == CHOOSE sub \in sso : TRUE
      throw(err) == [do |-> "throw", error |-> err, sub |-> NULL]
      approve(sub) == [do |-> "setAuthorized", error |-> NoError, sub |-> sub]
      page == [do |-> "page", error |-> NoError, sub |-> NULL]
  IN  IF parameters.prompt = "none"
      THEN IF Cardinality(sso) > 1
           THEN throw(AccountSelectionRequiredError(parameters))
           ELSE IF Cardinality(sso) < 1
           THEN throw(LoginRequiredError(parameters))
           ELSE IF sessions[one].loginRequired
           THEN throw(LoginRequiredError(parameters))
           ELSE IF sessions[one].consentRequired
           THEN throw(ConsentRequiredError(parameters))
           ELSE approve(one)
      ELSE IF /\ parameters.prompt = NULL
              /\ parameters.login_hint # NULL
              /\ Cardinality(sso) = 1
              /\ ~sessions[one].loginRequired
              /\ ~sessions[one].consentRequired
      THEN approve(one)
      ELSE page

\* The frame of an authorize call that holds its request.
AuthorizeFrame(a, pc, uri, data, sub, err) ==
  [op |-> "authorize", pc |-> pc, args |-> a, uri |-> uri,
   parameters |-> data.parameters, clientAuth |-> data.clientAuth,
   sub |-> sub, err |-> err]

\* getClient, then processAuthorizationRequest up to its first store call:
\* the request of a request_uri is loaded for this device and this client, a
\* request object is decoded, plain parameters make a new request.
authorize_processAuthorizationRequest(c, a) ==
  /\ LET got == ClientManager_getClient(a.client_id)
     IN  IF got.error # NULL
         THEN /\ ThrowAs(c, "authorize", a, accessDeniedCatcher(a.query, got))
              /\ UNCHANGED << requestStore, nextUri, replayStore, log >>
         ELSE IF "request_uri" \in DOMAIN a.query
         THEN LET r == RequestManager_get(a.query.request_uri, a.deviceId,
                                          a.client_id)
              IN  /\ IF r.error.error # NULL
                     THEN /\ ThrowAs(c, "authorize", a, accessDeniedCatcher(a.query, r.error))
                          /\ UNCHANGED requestStore
                     ELSE /\ requestStore' =
                               Put(requestStore, a.query.request_uri, r.data)
                          /\ Goto(c, AuthorizeFrame(a, "getSessions",
                                       a.query.request_uri, r.data, NULL, NoError))
                  /\ UNCHANGED << nextUri, replayStore, log >>
         ELSE IF "request" \in DOMAIN a.query
         THEN LET r == decodeJAR(a.client_id, a.query.request)
              IN  /\ replayStore' = r.replayStore
                  /\ IF r.error.error # NULL
                     THEN ThrowAs(c, "authorize", a, accessDeniedCatcher(a.query, r.error))
                     ELSE Goto(c, [op |-> "authorize",
                                   pc |-> "createAuthorizationRequest",
                                   args |-> a, parameters |-> r.payload,
                                   clientAuth |->
                                     IF r.signed THEN ClientAuthJwt(r.jkt)
                                     ELSE ClientAuthNone,
                                   jar |-> a.query.request.jti])
                  /\ UNCHANGED << requestStore, nextUri, log >>
         ELSE LET r == RequestManager_createAuthorizationRequest(
                         a.client_id, ClientAuthNone, a.query, a.deviceId, NULL)
              IN  /\ IF r.error.error # NULL
                     THEN /\ ThrowAs(c, "authorize", a, accessDeniedCatcher(a.query, r.error))
                          /\ UNCHANGED << requestStore, nextUri, log >>
                     ELSE /\ requestStore' = Put(requestStore, nextUri, r.data)
                          /\ nextUri' = nextUri + 1
                          /\ log' = log \cup {RequestCreated("authorize",
                                                 nextUri, a.client_id, NULL,
                                                 a.query, NULL)}
                          /\ Goto(c, AuthorizeFrame(a, "getSessions", nextUri,
                                                    r.data, NULL, NoError))
                  /\ UNCHANGED replayStore
  /\ UNCHANGED << now, nextCode, tokenStore, nextToken, accountStore >>

\* GET /oauth/authorize is received from a device.
authorize(c, Clients, Queries, Devices) ==
  /\ Free(c)
  /\ \E client_id \in Clients, query \in Queries, deviceId \in Devices :
       /\ "request_uri" \notin DOMAIN query => MayCreate(MaxRequests)
       /\ authorize_processAuthorizationRequest(
            c, [client_id |-> client_id, query |-> query, deviceId |-> deviceId])

\* processAuthorizationRequest, after a request object was decoded.
authorize_createAuthorizationRequest(c) ==
  /\ At(c, "authorize", "createAuthorizationRequest")
  /\ LET a == calls[c].args
         r == RequestManager_createAuthorizationRequest(
                a.client_id, calls[c].clientAuth, calls[c].parameters,
                a.deviceId, NULL)
     IN  IF r.error.error # NULL
         THEN /\ Throw(c, accessDeniedCatcher(a.query, r.error))
              /\ UNCHANGED << requestStore, nextUri, log >>
         ELSE /\ requestStore' = Put(requestStore, nextUri, r.data)
              /\ nextUri' = nextUri + 1
              /\ log' = log \cup {RequestCreated("authorize", nextUri,
                                     a.client_id, calls[c].jar,
                                     calls[c].parameters, NULL)}
              /\ Goto(c, AuthorizeFrame(a, "getSessions", nextUri, r.data,
                                        NULL, NoError))
  /\ UNCHANGED << now, nextCode, tokenStore, nextToken, replayStore,
                  accountStore >>

\* getSessions and the decision taken on the sessions.
authorize_getSessions(c) ==
  /\ At(c, "authorize", "getSessions")
  /\ LET f == calls[c]
         sessions == getSessions(f.args.client_id, f.args.deviceId, f.parameters)
         d == authorizeDecision(f.parameters, sessions)
     IN  IF d.do = "throw"
         THEN Goto(c, [f EXCEPT !.pc = "deleteRequest", !.err = d.error])
         ELSE IF d.do = "setAuthorized"
         THEN Goto(c, [f EXCEPT !.pc = "setAuthorized", !.sub = d.sub])
         ELSE Return(c, [authorize |-> [uri |-> f.uri, sessions |-> sessions]])
  /\ UNCHANGED << now, stores, log >>

\* The automatic approval: requestManager.setAuthorized.
authorize_setAuthorized(c) ==
  /\ At(c, "authorize", "setAuthorized")
  /\ LET f == calls[c]
         r == RequestManager_setAuthorized(f.uri, f.sub, f.args.deviceId)
     IN  IF r.error.error # NULL
         THEN /\ Goto(c, [f EXCEPT !.pc = "deleteRequest", !.err = r.error])
              /\ UNCHANGED << requestStore, nextCode, log >>
         ELSE /\ nextCode <= MaxCodes
              /\ requestStore' = Put(requestStore, f.uri, r.data)
              /\ nextCode' = nextCode + 1
              /\ log' = log \cup {[kind |-> "code", via |-> "authorize",
                                   uri |-> f.uri, code |-> nextCode,
                                   sub |-> f.sub, deviceId |-> f.args.deviceId]}
              /\ Return(c, [parameters |-> f.parameters,
                            redirect |-> [code |-> nextCode]])
  /\ UNCHANGED << now, nextUri, tokenStore, nextToken, replayStore,
                  accountStore >>

\* The catch of authorize: deleteRequest, then the error as an
\* AccessDeniedError for the parameters of the request.
authorize_deleteRequest(c) ==
  /\ At(c, "authorize", "deleteRequest")
  /\ requestStore' = Remove(requestStore, calls[c].uri)
  /\ Throw(c, AccessDeniedError_from(calls[c].parameters, calls[c].err))
  /\ UNCHANGED << now, nextUri, nextCode, tokenStore, nextToken, replayStore,
                  accountStore, log >>

\* ------------------------------------------------- acceptRequest, reject

\* The frame of an interactive call (accept, reject, sign-in, sign-up) that
\* holds its request.
ApiFrame(op, a, pc, data, err) ==
  [op |-> op, pc |-> pc, args |-> a,
   parameters |-> data.parameters, clientId |-> data.clientId, err |-> err]

\* An interactive request is received from a device; requestManager.get(
\* requestUri, deviceId) is the first step of acceptRequest, rejectRequest,
\* signIn and signUp, outside any try block.
api_get(c, op, a, next) ==
  /\ Free(c)
  /\ LET r == RequestManager_get(a.requestUri, a.deviceId, NULL)
     IN  IF r.error.error # NULL
         THEN /\ ThrowAs(c, op, a, r.error)
              /\ UNCHANGED requestStore
         ELSE /\ requestStore' = Put(requestStore, a.requestUri, r.data)
              /\ Goto(c, ApiFrame(op, a, next, r.data, NoError))
  /\ UNCHANGED << now, nextUri, nextCode, tokenStore, nextToken, replayStore,
                  accountStore, log >>

\* GET /oauth/authorize/accept is received from a device.
acceptRequest(c, Requests, Devices, Accounts) ==
  \E requestUri \in Requests, deviceId \in Devices, sub \in Accounts :
    api_get(c, "accept",
            [requestUri |-> requestUri, deviceId |-> deviceId, sub |-> sub],
            "accountManager_get")

\* An acceptRequest that refuses an account signed in without remember.
acceptRequest_accountManager_get_remembered(c) ==
  /\ At(c, "accept", "accountManager_get")
  /\ LET f == calls[c]
         r == AccountManager_get(f.args.deviceId, f.args.sub)
     IN  IF r.error.error # NULL
         THEN Goto(c, [f EXCEPT !.pc = "deleteRequest", !.err = r.error])
         ELSE IF loginRequired(f.parameters, r.info) \/ ~r.info.remember
         THEN Goto(c, [f EXCEPT !.pc = "deleteRequest",
                                !.err = LoginRequiredError(f.parameters)])
         ELSE Goto(c, [f EXCEPT !.pc = "setAuthorized"])
  /\ UNCHANGED << now, stores, log >>

\* accountManager.get(deviceId, sub) and the check of a fresh login.
acceptRequest_accountManager_get(c) ==
  /\ At(c, "accept", "accountManager_get")
  /\ LET f == calls[c]
         r == AccountManager_get(f.args.deviceId, f.args.sub)
     IN  IF r.error.error # NULL
         THEN Goto(c, [f EXCEPT !.pc = "deleteRequest", !.err = r.error])
         ELSE IF loginRequired(f.parameters, r.info)
         THEN Goto(c, [f EXCEPT !.pc = "deleteRequest",
                                !.err = LoginRequiredError(f.parameters)])
         ELSE Goto(c, [f EXCEPT !.pc = "setAuthorized"])
  /\ UNCHANGED << now, stores, log >>

\* An acceptRequest that adds the client to the account's authorized
\* clients before it calls setAuthorized.
acceptRequest_setAuthorized_addFirst(c) ==
  /\ At(c, "accept", "setAuthorized")
  /\ LET f == calls[c]
         k == << f.args.deviceId, f.args.sub >>
         r == RequestManager_setAuthorized(f.args.requestUri, f.args.sub,
                                           f.args.deviceId)
     IN  /\ accountStore' =
              IF k \in DOMAIN accountStore
              THEN [accountStore EXCEPT ![k].authorizedClients =
                                          @ \cup {f.clientId}]
              ELSE accountStore
         /\ IF r.error.error # NULL
            THEN /\ Goto(c, [f EXCEPT !.pc = "deleteRequest", !.err = r.error])
                 /\ UNCHANGED << requestStore, nextCode, log >>
            ELSE /\ nextCode <= MaxCodes
                 /\ requestStore' = Put(requestStore, f.args.requestUri, r.data)
                 /\ nextCode' = nextCode + 1
                 /\ log' = log \cup {[kind |-> "code", via |-> "accept",
                                      uri |-> f.args.requestUri,
                                      code |-> nextCode, sub |-> f.args.sub,
                                      deviceId |-> f.args.deviceId]}
                 /\ Goto(c, [op |-> "accept", pc |-> "addAuthorizedClient",
                             args |-> f.args, parameters |-> f.parameters,
                             clientId |-> f.clientId, err |-> NoError,
                             code |-> nextCode])
  /\ UNCHANGED << now, nextUri, tokenStore, nextToken, replayStore >>

acceptRequest_setAuthorized(c) ==
  /\ At(c, "accept", "setAuthorized")
  /\ LET f == calls[c]
         r == RequestManager_setAuthorized(f.args.requestUri, f.args.sub,
                                           f.args.deviceId)
     IN  IF r.error.error # NULL
         THEN /\ Goto(c, [f EXCEPT !.pc = "deleteRequest", !.err = r.error])
              /\ UNCHANGED << requestStore, nextCode, log >>
         ELSE /\ nextCode <= MaxCodes
              /\ requestStore' = Put(requestStore, f.args.requestUri, r.data)
              /\ nextCode' = nextCode + 1
              /\ log' = log \cup {[kind |-> "code", via |-> "accept",
                                   uri |-> f.args.requestUri, code |-> nextCode,
                                   sub |-> f.args.sub,
                                   deviceId |-> f.args.deviceId]}
              /\ Goto(c, [op |-> "accept", pc |-> "addAuthorizedClient",
                          args |-> f.args, parameters |-> f.parameters,
                          clientId |-> f.clientId, err |-> NoError,
                          code |-> nextCode])
  /\ UNCHANGED << now, nextUri, tokenStore, nextToken, replayStore,
                  accountStore >>

\* accountManager.addAuthorizedClient(deviceId, account, client, clientAuth).
acceptRequest_addAuthorizedClient(c) ==
  /\ At(c, "accept", "addAuthorizedClient")
  /\ LET f == calls[c]
         k == << f.args.deviceId, f.args.sub >>
     IN  /\ accountStore' =
              IF k \in DOMAIN accountStore
              THEN [accountStore EXCEPT ![k].authorizedClients =
                                          @ \cup {f.clientId}]
              ELSE accountStore
         /\ Return(c, [redirect |-> [code |-> f.code]])
  /\ UNCHANGED << now, requestStore, nextUri, nextCode, tokenStore, nextToken,
                  replayStore, log >>

\* A catch of acceptRequest that reports the error and leaves the request.
acceptRequest_deleteRequest_skipped(c) ==
  /\ At(c, "accept", "deleteRequest")
  /\ requestStore' = requestStore
  /\ Throw(c, AccessDeniedError_from(calls[c].parameters, calls[c].err))
  /\ UNCHANGED << now, nextUri, nextCode, tokenStore, nextToken, replayStore,
                  accountStore, log >>

\* The catch of acceptRequest.
acceptRequest_deleteRequest(c) ==
  /\ At(c, "accept", "deleteRequest")
  /\ requestStore' = Remove(requestStore, calls[c].args.requestUri)
  /\ Throw(c, AccessDeniedError_from(calls[c].parameters, calls[c].err))
  /\ UNCHANGED << now, nextUri, nextCode, tokenStore, nextToken, replayStore,
                  accountStore, log >>

\* The record of a rejectRequest that has returned its redirect.
Rejected(uri) == [kind |-> "reject", uri |-> uri]

\* GET /oauth/authorize/reject is received from a device.
rejectRequest(c, Requests, Devices) ==
  \E requestUri \in Requests, deviceId \in Devices :
    api_get(c, "reject", [requestUri |-> requestUri, deviceId |-> deviceId],
            "deleteRequest")

\* rejectRequest without deleteRequest.
rejectRequest_noDelete(c) ==
  /\ At(c, "reject", "deleteRequest")
  /\ requestStore' = requestStore
  /\ log' = log \cup {Rejected(calls[c].args.requestUri)}
  /\ Return(c, [redirect |-> [error |-> "access_denied"]])
  /\ UNCHANGED << now, nextUri, nextCode, tokenStore, nextToken, replayStore,
                  accountStore >>

\* rejectRequest that leaves a request that already has its code.
rejectRequest_keepAuthorized(c) ==
  /\ At(c, "reject", "deleteRequest")
  /\ LET uri == calls[c].args.requestUri IN
     requestStore' =
       IF uri \in DOMAIN requestStore /\ requestStore[uri].code # NoId
       THEN requestStore ELSE Remove(requestStore, uri)
  /\ log' = log \cup {Rejected(calls[c].args.requestUri)}
  /\ Return(c, [redirect |-> [error |-> "access_denied"]])
  /\ UNCHANGED << now, nextUri, nextCode, tokenStore, nextToken, replayStore,
                  accountStore >>

\* deleteRequest, then the redirect with access_denied.
rejectRequest_deleteRequest(c) ==
  /\ At(c, "reject", "deleteRequest")
  /\ requestStore' = Remove(requestStore, calls[c].args.requestUri)
  /\ log' = log \cup {Rejected(calls[c].args.requestUri)}
  /\ Return(c, [redirect |-> [error |-> "access_denied"]])
  /\ UNCHANGED << now, nextUri, nextCode, tokenStore, nextToken, replayStore,
                  accountStore >>

\* ---------------------------------------------------------- signIn, signUp

\* POST /oauth/authorize/sign-in is received from a device.
signIn(c, Requests, Devices, Data) ==
  \E requestUri \in Requests, deviceId \in Devices, data \in Data :
    api_get(c, "signIn",
            [requestUri |-> requestUri, deviceId |-> deviceId, data |-> data],
            "accountManager_signIn")

\* AccountManager.signIn(data, deviceId, deviceMetadata): the credentials
\* are checked and the account is attached to the device, authenticated now;
\* the clients it authorized on this device before are kept.
AccountManager_signIn(data, deviceId) ==
  LET k == << deviceId, data.sub >> IN
  IF ~data.valid THEN [error |-> InvalidRequestError, info |-> NoValue]
  ELSE [error |-> NoError,
        info |-> [authenticatedAt |-> now,
                  remember |-> data.remember,
                  authorizedClients |->
                    IF k \in DOMAIN accountStore
                    THEN accountStore[k].authorizedClients ELSE {}]]

signIn_accountManager_signIn(c) ==
  /\ At(c, "signIn", "accountManager_signIn")
  /\ LET f == calls[c]
         r == AccountManager_signIn(f.args.data, f.args.deviceId)
     IN  IF r.error.error # NULL
         THEN /\ Throw(c, r.error)
              /\ UNCHANGED accountStore
         ELSE /\ accountStore' =
                   Put(accountStore, << f.args.deviceId, f.args.data.sub >>, r.info)
              /\ Return(c, [account |-> f.args.data.sub,
                            consentRequired |->
                              IF ClientMetadata(f.clientId).isFirstParty
                              THEN FALSE
                              ELSE f.clientId \notin r.info.authorizedClients])
  /\ UNCHANGED << now, requestStore, nextUri, nextCode, tokenStore, nextToken,
                  replayStore, log >>

\* POST /oauth/authorize/sign-up is received from a device.
signUp(c, Requests, Devices, Data) ==
  \E requestUri \in Requests, deviceId \in Devices, data \in Data :
    api_get(c, "signUp",
            [requestUri |-> requestUri, deviceId |-> deviceId, data |-> data],
            "accountManager_signUp")

\* AccountManager.signUp(data, deviceId, deviceMetadata): the new account is
\* attached to the device, authenticated now, with no authorized client.
signUp_accountManager_signUp(c) ==
  /\ At(c, "signUp", "accountManager_signUp")
  /\ LET f == calls[c]
         k == << f.args.deviceId, f.args.data.sub >>
     IN  IF ~f.args.data.valid \/ k \in DOMAIN accountStore
         THEN /\ Throw(c, InvalidRequestError)
              /\ UNCHANGED accountStore
         ELSE /\ accountStore' =
                   Put(accountStore, k,
                       [authenticatedAt |-> now, remember |-> FALSE,
                        authorizedClients |-> {}])
              /\ Return(c, [account |-> f.args.data.sub,
                            consentRequired |->
                              ~ClientMetadata(f.clientId).isFirstParty])
  /\ UNCHANGED << now, requestStore, nextUri, nextCode, tokenStore, nextToken,
                  replayStore, log >>

\* ------------------------------------------------------------ TokenManager

\* The token record of a lineage: the token id is the jti of the access
\* token and the value of the refresh token issued with it; previous is the
\* token it was rotated from, root the first token of its lineage, and
\* consumed tells that its refresh token was rotated out.
TokenData(client_id, clientAuth, sub, deviceId, parameters, code, root, previous) ==
  [ clientId |-> client_id, clientAuth |-> clientAuth, sub |-> sub,
    deviceId |-> deviceId, parameters |-> parameters, code |-> code,
    root |-> root, previous |-> previous, consumed |-> FALSE ]

\* TokenManager.create without the PKCE check.
TokenManager_create_noPkce(client_id, clientAuth, sub, deviceId, parameters, input, dpopJkt) ==
  IF parameters.dpop_jkt # dpopJkt
  THEN [error |-> InvalidGrantError, data |-> NoValue]
  ELSE [error |-> NoError,
        data |-> TokenData(client_id, clientAuth, sub, deviceId, parameters,
                           input.code, nextToken, NoId)]

\* TokenManager.create(client, clientAuth, clientMetadata, account, device,
\* parameters, input, dpopJkt): the code_verifier must answer the
\* code_challenge under its method; the proof of a DPoP-bound authorization
\* must be made with the key it is bound to, and a bearer authorization
\* comes with no proof.  The token record to persist.
TokenManager_create(client_id, clientAuth, sub, deviceId, parameters, input, dpopJkt) ==
  IF /\ parameters.code_challenge # NULL
     /\ \/ input.code_verifier = NULL
        \/ CodeChallengeOf(parameters.code_challenge_method, input.code_verifier)
             # parameters.code_challenge
  THEN [error |-> InvalidGrantError, data |-> NoValue]
  ELSE IF parameters.dpop_jkt # dpopJkt
  THEN [error |-> InvalidGrantError, data |-> NoValue]
  ELSE [error |-> NoError,
        data |-> TokenData(client_id, clientAuth, sub, deviceId, parameters,
                           input.code, nextToken, NoId)]

\* What revoke is given: an authorization code or a token.
CodeOf(code) == [kind |-> "code", id |-> code]
TokenOf(id) == [kind |-> "token", id |-> id]

\* The tokens of the lineage of a token.
Lineage(id) ==
  IF id \in DOMAIN tokenStore
  THEN {t \in DOMAIN tokenStore : tokenStore[t].root = tokenStore[id].root}
  ELSE {}

\* The store without these tokens.
RemoveAll(store, ids) == [k \in DOMAIN store \ ids |-> store[k]]

\* TokenManager.revoke(tokenOrCode), idempotent: the lineage of the token,
\* or of the tokens issued for the code, is revoked.  The token store it
\* leaves.
TokenManager_revoke(tokenOrCode) ==
  IF tokenOrCode.kind = "code"
  THEN RemoveAll(tokenStore,
                 {t \in DOMAIN tokenStore : tokenStore[t].code = tokenOrCode.id})
  ELSE RemoveAll(tokenStore, Lineage(tokenOrCode.id))

\* The token response.
TokenResponse(id, data) ==
  [ access_token |-> id, refresh_token |-> id,
    token_type |-> IF data.parameters.dpop_jkt # NULL THEN "DPoP" ELSE "Bearer",
    scope |-> data.parameters.scope, sub |-> data.sub ]

\* ------------------------------------------------------------------- token

\* metadata.grant_types_supported
grant_types_supported == {"authorization_code", "refresh_token"}

\* A token request of each grant type.
CodeGrantRequest(code, code_verifier) ==
  [grant_type |-> "authorization_code", code |-> code,
   code_verifier |-> code_verifier]
RefreshGrantRequest(refresh_token) ==
  [grant_type |-> "refresh_token", refresh_token |-> refresh_token]

\* The frame of a token call, with what findCode (or the lookup of the
\* refresh token) found.
TokenFrame(a, pc, clientAuth, found, err) ==
  [op |-> "token", pc |-> pc, args |-> a, clientAuth |-> clientAuth,
   found |-> found, err |-> err]

\* A token endpoint that does not check the grant type against the client's
\* metadata.
token_anyClientGrant(c, Credentials, Requests, Proofs) ==
  /\ Free(c)
  /\ \E credentials \in Credentials, request \in Requests, dpopJkt \in Proofs :
     LET a == [credentials |-> credentials, request |-> request,
               dpopJkt |-> dpopJkt]
         r == authenticateClient(credentials)
     IN  /\ replayStore' = r.replayStore
         /\ IF r.error.error # NULL THEN ThrowAs(c, "token", a, r.error)
            ELSE IF request.grant_type \notin grant_types_supported
            THEN ThrowAs(c, "token", a, InvalidGrantError)
            ELSE IF request.grant_type = "authorization_code"
            THEN Goto(c, TokenFrame(a, "findCode", r.clientAuth, NoValue, NoError))
            ELSE IF request.grant_type = "refresh_token"
            THEN Goto(c, TokenFrame(a, "refresh", r.clientAuth, NoValue, NoError))
            ELSE ThrowAs(c, "token", a, InvalidGrantError)
  /\ UNCHANGED << now, requestStore, nextUri, nextCode, tokenStore, nextToken,
                  accountStore, log >>

\* POST /oauth/token is received; the client is authenticated and the grant
\* type checked against the server's and the client's metadata.
token(c, Credentials, Requests, Proofs) ==
  /\ Free(c)
  /\ \E credentials \in Credentials, request \in Requests, dpopJkt \in Proofs :
     LET a == [credentials |-> credentials, request |-> request,
               dpopJkt |-> dpopJkt]
         r == authenticateClient(credentials)
     IN  /\ replayStore' = r.replayStore
         /\ IF r.error.error # NULL THEN ThrowAs(c, "token", a, r.error)
            ELSE IF request.grant_type \notin grant_types_supported
            THEN ThrowAs(c, "token", a, InvalidGrantError)
            ELSE IF request.grant_type \notin
                      ClientMetadata(credentials.client_id).grant_types
            THEN ThrowAs(c, "token", a, InvalidGrantError)
            ELSE IF request.grant_type = "authorization_code"
            THEN Goto(c, TokenFrame(a, "findCode", r.clientAuth, NoValue, NoError))
            ELSE IF request.grant_type = "refresh_token"
            THEN Goto(c, TokenFrame(a, "refresh", r.clientAuth, NoValue, NoError))
            ELSE ThrowAs(c, "token", a, InvalidGrantError)
  /\ UNCHANGED << now, requestStore, nextUri, nextCode, tokenStore, nextToken,
                  accountStore, log >>

\* --------------------------------------------------------------- codeGrant

\* codeGrant looking the request of the code up without consuming it.
codeGrant_findCode_lookup(c) ==
  /\ At(c, "token", "findCode")
  /\ LET f == calls[c]
         a == f.args
         r == RequestManager_findCode(a.credentials.client_id, f.clientAuth,
                                      a.request.code)
     IN  /\ requestStore' = requestStore
         /\ IF r.error.error # NULL
            THEN /\ Goto(c, [f EXCEPT !.pc = "revoke", !.err = r.error])
                 /\ UNCHANGED log
            ELSE /\ Goto(c, [f EXCEPT
                       !.pc = IF r.data.parameters.code_challenge # NULL
                              THEN "uniqueCodeChallenge"
                              ELSE "accountManager_get",
                       !.found = [uri |-> r.uri, sub |-> r.data.sub,
                                  deviceId |-> r.data.deviceId,
                                  parameters |-> r.data.parameters]])
                 /\ log' = log \cup {[kind |-> "findCode", uri |-> r.uri,
                                      code |-> a.request.code,
                                      n |-> Cardinality(log)]}
  /\ UNCHANGED << now, nextUri, nextCode, tokenStore, nextToken, replayStore,
                  accountStore >>

\* requestManager.findCode: the request of the code is consumed.
codeGrant_findCode(c) ==
  /\ At(c, "token", "findCode")
  /\ LET f == calls[c]
         a == f.args
         r == RequestManager_findCode(a.credentials.client_id, f.clientAuth,
                                      a.request.code)
     IN  /\ requestStore' = r.requestStore
         /\ IF r.error.error # NULL
            THEN /\ Goto(c, [f EXCEPT !.pc = "revoke", !.err = r.error])
                 /\ UNCHANGED log
            ELSE /\ Goto(c, [f EXCEPT
                       !.pc = IF r.data.parameters.code_challenge # NULL
                              THEN "uniqueCodeChallenge"
                              ELSE "accountManager_get",
                       !.found = [uri |-> r.uri, sub |-> r.data.sub,
                                  deviceId |-> r.data.deviceId,
                                  parameters |-> r.data.parameters]])
                 /\ log' = log \cup {[kind |-> "findCode", uri |-> r.uri,
                                      code |-> a.request.code,
                                      n |-> Cardinality(log)]}
  /\ UNCHANGED << now, nextUri, nextCode, tokenStore, nextToken, replayStore,
                  accountStore >>

\* codeGrant going on whatever uniqueCodeChallenge answers.
codeGrant_uniqueCodeChallenge_ignored(c) ==
  /\ At(c, "token", "uniqueCodeChallenge")
  /\ LET f == calls[c]
         key == ReplayKey("code_challenge", NULL, f.found.parameters.code_challenge)
     IN  /\ replayStore' = replayStore \cup {key}
         /\ Goto(c, [f EXCEPT !.pc = "accountManager_get"])
  /\ UNCHANGED << now, requestStore, nextUri, nextCode, tokenStore, nextToken,
                  accountStore, log >>

\* replayManager.uniqueCodeChallenge, a conditional insert.
codeGrant_uniqueCodeChallenge(c) ==
  /\ At(c, "token", "uniqueCodeChallenge")
  /\ LET f == calls[c]
         key == ReplayKey("code_challenge", NULL, f.found.parameters.code_challenge)
     IN  IF key \in replayStore
         THEN /\ Goto(c, [f EXCEPT !.pc = "revoke", !.err = InvalidGrantError])
              /\ UNCHANGED replayStore
         ELSE /\ replayStore' = replayStore \cup {key}
              /\ Goto(c, [f EXCEPT !.pc = "accountManager_get"])
  /\ UNCHANGED << now, requestStore, nextUri, nextCode, tokenStore, nextToken,
                  accountStore, log >>

\* accountManager.get(deviceId, sub)
codeGrant_accountManager_get(c) ==
  /\ At(c, "token", "accountManager_get")
  /\ LET f == calls[c]
         r == AccountManager_get(f.found.deviceId, f.found.sub)
     IN  IF r.error.error # NULL
         THEN Goto(c, [f EXCEPT !.pc = "revoke", !.err = r.error])
         ELSE Goto(c, [f EXCEPT !.pc = "create"])
  /\ UNCHANGED << now, stores, log >>

\* A code grant that forgets the code_challenge when the token manager
\* refuses to create the token.
codeGrant_create_release(c) ==
  /\ At(c, "token", "create")
  /\ LET f == calls[c]
         a == f.args
         r == TokenManager_create(a.credentials.client_id, f.clientAuth,
                                  f.found.sub, f.found.deviceId,
                                  f.found.parameters, a.request, a.dpopJkt)
     IN  IF r.error.error # NULL
         THEN /\ Goto(c, [f EXCEPT !.pc = "revoke", !.err = r.error])
              /\ replayStore' = replayStore \
                   {ReplayKey("code_challenge", NULL,
                              f.found.parameters.code_challenge)}
              /\ UNCHANGED << tokenStore, nextToken, log >>
         ELSE /\ nextToken <= MaxTokens
              /\ tokenStore' = Put(tokenStore, nextToken, r.data)
              /\ nextToken' = nextToken + 1
              /\ log' = log \cup {[kind |-> "token", via |-> "code",
                                   id |-> nextToken, from |-> NoId,
                                   root |-> nextToken,
                                   code |-> a.request.code,
                                   uri |-> f.found.uri,
                                   code_verifier |-> a.request.code_verifier,
                                   proof |-> a.dpopJkt,
                                   dpop_jkt |-> r.data.parameters.dpop_jkt]}
              /\ Return(c, TokenResponse(nextToken, r.data))
              /\ UNCHANGED replayStore
  /\ UNCHANGED << now, requestStore, nextUri, nextCode, accountStore >>

\* tokenManager.create
codeGrant_create(c) ==
  /\ At(c, "token", "create")
  /\ LET f == calls[c]
         a == f.args
         r == TokenManager_create(a.credentials.client_id, f.clientAuth,
                                  f.found.sub, f.found.deviceId,
                                  f.found.parameters, a.request, a.dpopJkt)
     IN  IF r.error.error # NULL
         THEN /\ Goto(c, [f EXCEPT !.pc = "revoke", !.err = r.error])
              /\ UNCHANGED << tokenStore, nextToken, log >>
         ELSE /\ nextToken <= MaxTokens
              /\ tokenStore' = Put(tokenStore, nextToken, r.data)
              /\ nextToken' = nextToken + 1
              /\ log' = log \cup {[kind |-> "token", via |-> "code",
                                   id |-> nextToken, from |-> NoId,
                                   root |-> nextToken,
                                   code |-> a.request.code,
                                   uri |-> f.found.uri,
                                   code_verifier |-> a.request.code_verifier,
                                   proof |-> a.dpopJkt,
                                   dpop_jkt |-> r.data.parameters.dpop_jkt]}
              /\ Return(c, TokenResponse(nextToken, r.data))
  /\ UNCHANGED << now, requestStore, nextUri, nextCode, replayStore,
                  accountStore >>

\* The catch of codeGrant: tokenManager.revoke(input.code), then the error.
codeGrant_revoke(c) ==
  /\ At(c, "token", "revoke")
  /\ tokenStore' = TokenManager_revoke(CodeOf(calls[c].args.request.code))
  /\ Throw(c, calls[c].err)
  /\ UNCHANGED << now, requestStore, nextUri, nextCode, nextToken, replayStore,
                  accountStore, log >>

\* ------------------------------------------------------- refreshTokenGrant

\* TokenManager.refresh without the check that the refresh token was not
\* rotated out.
TokenManager_refresh_again(client_id, clientAuth, input, dpopJkt) ==
  LET id == input.refresh_token
      throw(err) == [do |-> "throw", error |-> err, data |-> NoValue]
  IN  IF id \notin DOMAIN tokenStore THEN throw(InvalidGrantError)
      ELSE LET data == tokenStore[id] IN
        IF \/ data.clientId # client_id
           \/ data.clientAuth.method # clientAuth.method
        THEN throw(InvalidGrantError)
        ELSE IF data.parameters.dpop_jkt # dpopJkt
        THEN throw(InvalidGrantError)
        ELSE [do |-> "rotate", error |-> NoError,
              data |-> [data EXCEPT !.previous = id]]

\* TokenManager.refresh(client, clientAuth, clientMetadata, input, dpopJkt),
\* decided on the token store as it is: an unknown (or revoked) refresh
\* token is refused; one that was rotated out is a replay, which revokes the
\* lineage; the client, its authentication method and the DPoP binding must
\* be those of the token; otherwise the token is rotated to this successor.
TokenManager_refresh(client_id, clientAuth, input, dpopJkt) ==
  LET id == input.refresh_token
      throw(err) == [do |-> "throw", error |-> err, data |-> NoValue]
  IN  IF id \notin DOMAIN tokenStore THEN throw(InvalidGrantError)
      ELSE LET data == tokenStore[id] IN
        IF data.consumed
        THEN [do |-> "revoke", error |-> InvalidGrantError, data |-> NoValue]
        ELSE IF \/ data.clientId # client_id
                \/ data.clientAuth.method # clientAuth.method
        THEN throw(InvalidGrantError)
        ELSE IF data.parameters.dpop_jkt # dpopJkt
        THEN throw(InvalidGrantError)
        ELSE [do |-> "rotate", error |-> NoError,
              data |-> [data EXCEPT !.previous = id]]

\* tokenManager.refresh, the lookup of the refresh token.
refreshTokenGrant_find(c) ==
  /\ At(c, "token", "refresh")
  /\ LET f == calls[c]
         a == f.args
         r == TokenManager_refresh(a.credentials.client_id, f.clientAuth,
                                   a.request, a.dpopJkt)
     IN  IF r.do = "throw" THEN Throw(c, r.error)
         ELSE IF r.do = "revoke"
         THEN Goto(c, [f EXCEPT !.pc = "replayed", !.err = r.error])
         ELSE Goto(c, [f EXCEPT !.pc = "rotate"])
  /\ UNCHANGED << now, stores, log >>

\* tokenManager.refresh, the rotation: the refresh token is marked consumed
\* and its successor inserted, atomically and only if it is still there and
\* not consumed.
refreshTokenGrant_rotate(c) ==
  /\ At(c, "token", "rotate")
  /\ LET f == calls[c]
         a == f.args
         r == TokenManager_refresh(a.credentials.client_id, f.clientAuth,
                                   a.request, a.dpopJkt)
     IN  IF r.do = "throw"
         THEN /\ Throw(c, r.error)
              /\ UNCHANGED << tokenStore, nextToken, log >>
         ELSE IF r.do = "revoke"
         THEN /\ Goto(c, [f EXCEPT !.pc = "replayed", !.err = r.error])
              /\ UNCHANGED << tokenStore, nextToken, log >>
         ELSE /\ nextToken <= MaxTokens
              /\ tokenStore' =
                   Put([tokenStore EXCEPT ![a.request.refresh_token].consumed = TRUE],
                       nextToken, r.data)
              /\ nextToken' = nextToken + 1
              /\ log' = log \cup {[kind |-> "token", via |-> "refresh",
                                   id |-> nextToken,
                                   from |-> a.request.refresh_token,
                                   root |-> r.data.root,
                                   proof |-> a.dpopJkt,
                                   dpop_jkt |-> r.data.parameters.dpop_jkt]}
              /\ Return(c, TokenResponse(nextToken, r.data))
  /\ UNCHANGED << now, requestStore, nextUri, nextCode, replayStore,
                  accountStore >>

\* tokenManager.refresh, after a replay: the lineage is revoked.
refreshTokenGrant_revoke(c) ==
  /\ At(c, "token", "replayed")
  /\ tokenStore' = TokenManager_revoke(TokenOf(calls[c].args.request.refresh_token))
  /\ Throw(c, calls[c].err)
  /\ UNCHANGED << now, requestStore, nextUri, nextCode, nextToken, replayStore,
                  accountStore, log >>

\* ------------------------------------------------------- authenticateToken

\* An access token as presented to a resource: the opaque id of a token, or
\* a signed JWT with its jti, its cnf.jkt claim and whether its signature and
\* claims verify.
TokenId(id) == [kind |-> "id", id |-> id, cnf_jkt |-> NULL, valid |-> TRUE]
SignedToken(jti, cnf_jkt, valid) ==
  [kind |-> "jwt", id |-> jti, cnf_jkt |-> cnf_jkt, valid |-> valid]

isTokenId(accessToken) == accessToken.kind = "id"

\* assertTokenTypeAllowed(tokenType, accessTokenType), for a server
\* configured with the access token type serverType.
assertTokenTypeAllowed(serverType, accessTokenType) ==
  IF serverType # "auto" /\ serverType # accessTokenType
  THEN InvalidTokenError ELSE NoError

\* The DPoP binding of a presented token: a token bound to a key comes as a
\* DPoP token with a proof made with that key, an unbound one as a Bearer
\* token.
verifyTokenClaims(tokenType, cnf_jkt, dpopJkt) ==
  IF cnf_jkt # NULL
  THEN IF tokenType # "DPoP" THEN InvalidDpopProofError
       ELSE IF dpopJkt # cnf_jkt THEN InvalidDpopProofError
       ELSE NoError
  ELSE IF tokenType = "DPoP" THEN InvalidTokenError
  ELSE NoError

\* TokenManager.authenticateTokenId(tokenType, tokenId, dpopJkt, options):
\* the token is looked up and its DPoP binding verified.
TokenManager_authenticateTokenId(tokenType, id, dpopJkt) ==
  IF id \notin DOMAIN tokenStore THEN InvalidTokenError
  ELSE IF tokenStore[id].consumed THEN InvalidTokenError
  ELSE verifyTokenClaims(tokenType, tokenStore[id].parameters.dpop_jkt, dpopJkt)

\* OAuthVerifier.authenticateToken: the signed token is verified, then its
\* DPoP binding.
OAuthVerifier_authenticateToken(tokenType, accessToken, dpopJkt) ==
  IF ~accessToken.valid THEN InvalidTokenError
  ELSE verifyTokenClaims(tokenType, accessToken.cnf_jkt, dpopJkt)

\* authenticateToken accepting a token id without tokenManager's verification.
authenticateToken_unverified(serverType, tokenType, accessToken, dpopJkt) ==
  IF isTokenId(accessToken)
  THEN assertTokenTypeAllowed(serverType, "id")
  ELSE OAuthVerifier_authenticateToken(tokenType, accessToken, dpopJkt)

\* authenticateToken(tokenType, token, dpopJkt, verifyOptions), on a server
\* whose accessTokenType is serverType: the error it throws, if any.
authenticateToken(serverType, tokenType, accessToken, dpopJkt) ==
  IF isTokenId(accessToken)
  THEN LET allowed == assertTokenTypeAllowed(serverType, "id")
       IN  IF allowed.error # NULL THEN allowed
           ELSE TokenManager_authenticateTokenId(tokenType, accessToken.id, dpopJkt)
  ELSE OAuthVerifier_authenticateToken(tokenType, accessToken, dpopJkt)

\* A resource request presents an access token.
authenticateRequest(c, ServerTypes, TokenTypes, Tokens, Proofs) ==
  /\ Free(c)
  /\ \E serverType \in ServerTypes, tokenType \in TokenTypes,
        accessToken \in Tokens, dpopJkt \in Proofs :
     LET a == [serverType |-> serverType, tokenType |-> tokenType,
               token |-> accessToken, dpopJkt |-> dpopJkt]
         err == authenticateToken(serverType, tokenType, accessToken, dpopJkt)
     IN  IF err.error # NULL THEN ThrowAs(c, "authenticateToken", a, err)
         ELSE ReturnAs(c, "authenticateToken", a, [authenticated |-> accessToken.id])
  /\ UNCHANGED << now, stores, log >>

\* -------------------------------------------------------------- introspect

\* TokenManager.clientTokenInfo(client, clientAuth, token): the token, when
\* the calling client is the client it was issued to.
TokenManager_clientTokenInfo(client_id, clientAuth, id) ==
  IF id \notin DOMAIN tokenStore THEN [error |-> InvalidGrantError, data |-> NoValue]
  ELSE IF tokenStore[id].clientId # client_id
  THEN [error |-> InvalidGrantError, data |-> NoValue]
  ELSE [error |-> NoError, data |-> tokenStore[id]]

\* An introspection that accepts a client authenticated with the none
\* method.
introspect_anyMethod(c, Credentials, Tokens) ==
  /\ Free(c)
  /\ \E credentials \in Credentials, id \in Tokens :
     LET a == [credentials |-> credentials, token |-> id]
         r == authenticateClient(credentials)
     IN  /\ replayStore' = r.replayStore
         /\ IF r.error.error # NULL THEN ThrowAs(c, "introspect", a, r.error)
            ELSE Goto(c, [op |-> "introspect", pc |-> "clientTokenInfo",
                          args |-> a, clientAuth |-> r.clientAuth])
  /\ UNCHANGED << now, requestStore, nextUri, nextCode, tokenStore, nextToken,
                  accountStore, log >>

\* POST /oauth/introspect is received: the client is authenticated, and
\* must have used another method than none.
introspect(c, Credentials, Tokens) ==
  /\ Free(c)
  /\ \E credentials \in Credentials, id \in Tokens :
     LET a == [credentials |-> credentials, token |-> id]
         r == authenticateClient(credentials)
     IN  /\ replayStore' = r.replayStore
         /\ IF r.error.error # NULL THEN ThrowAs(c, "introspect", a, r.error)
            ELSE IF r.clientAuth.method = "none"
            THEN ThrowAs(c, "introspect", a, UnauthorizedClientError)
            ELSE Goto(c, [op |-> "introspect", pc |-> "clientTokenInfo",
                          args |-> a, clientAuth |-> r.clientAuth])
  /\ UNCHANGED << now, requestStore, nextUri, nextCode, tokenStore, nextToken,
                  accountStore, log >>

\* An introspection that throws the error of tokenManager.clientTokenInfo.
introspect_clientTokenInfo_rethrow(c) ==
  /\ At(c, "introspect", "clientTokenInfo")
  /\ LET a == calls[c].args
         r == TokenManager_clientTokenInfo(a.credentials.client_id,
                                           calls[c].clientAuth, a.token)
     IN  IF r.error.error # NULL THEN Throw(c, r.error)
         ELSE Return(c, [active |-> TRUE, scope |-> r.data.parameters.scope,
                         client_id |-> r.data.clientId,
                         sub |-> r.data.sub, jti |-> a.token,
                         token_type |-> IF r.data.parameters.dpop_jkt # NULL
                                        THEN "DPoP" ELSE "Bearer"])
  /\ UNCHANGED << now, stores, log >>

\* An introspection that reports the scope "atproto" for every token.
introspect_clientTokenInfo_defaultScope(c) ==
  /\ At(c, "introspect", "clientTokenInfo")
  /\ LET a == calls[c].args
         r == TokenManager_clientTokenInfo(a.credentials.client_id,
                                           calls[c].clientAuth, a.token)
     IN  IF r.error.error # NULL THEN Return(c, [active |-> FALSE])
         ELSE Return(c, [active |-> TRUE, scope |-> "atproto",
                         client_id |-> r.data.clientId,
                         sub |-> r.data.sub, jti |-> a.token,
                         token_type |-> IF r.data.parameters.dpop_jkt # NULL
                                        THEN "DPoP" ELSE "Bearer"])
  /\ UNCHANGED << now, stores, log >>

\* tokenManager.clientTokenInfo: the token is described as active, and any
\* error is answered with active: false.
introspect_clientTokenInfo(c) ==
  /\ At(c, "introspect", "clientTokenInfo")
  /\ LET a == calls[c].args
         r == TokenManager_clientTokenInfo(a.credentials.client_id,
                                           calls[c].clientAuth, a.token)
     IN  IF r.error.error # NULL THEN Return(c, [active |-> FALSE])
         ELSE Return(c, [active |-> TRUE, scope |-> r.data.parameters.scope,
                         client_id |-> r.data.clientId,
                         sub |-> r.data.sub, jti |-> a.token,
                         token_type |-> IF r.data.parameters.dpop_jkt # NULL
                                        THEN "DPoP" ELSE "Bearer"])
  /\ UNCHANGED << now, stores, log >>

\* ------------------------------------------------- pushed requests with JAR

P0 == Parameters("h1", "S256", NULL, NULL, NULL)

JarCredentials ==
  { CredentialsNone("c1"), CredentialsNone("c2"),
    CredentialsJwt("c2", "a1", "K1", TRUE) }
JarRequests ==
  { [request |-> RequestObject("j1", P0, TRUE, "kid", TRUE)],
    [request |-> RequestObject("j2", P0, TRUE, "kid", TRUE)],
    [request |-> RequestObject("j1", P0, FALSE, NULL, TRUE)],
    [request |-> RequestObject("j1", P0, TRUE, NULL, TRUE)],
    [request |-> RequestObject(NULL, P0, FALSE, NULL, TRUE)],
    [request |-> RequestObject("j2", P0, TRUE, "kid", FALSE)],
    P0 }

NextJar ==
  \E c \in CallIds :
    \/ pushedAuthorizationRequest(c, JarCredentials, JarRequests, {NULL})
    \/ pushedAuthorizationRequest_decodeJAR(c)
    \/ pushedAuthorizationRequest_createAuthorizationRequest(c)
    \/ Respond(c)

SpecJar == Init /\ [][NextJar]_vars

\* The authorization requests created so far from the request object with
\* this jti, for this client.
CreatedFromJar(client_id, jti) ==
  {e \in log : e.kind = "request" /\ e.client_id = client_id /\ e.jar = jti}

\* A finished PAR call that carried a request object.
JarDone(c) == Done(c, "par") /\ "request" \in DOMAIN calls[c].args.authorizationRequest
JarOf(c) == calls[c].args.authorizationRequest.request

\* C10: for every client and every jti, at most one authorization request is
\* ever created from request objects with that jti, and every other pushed
\* request carrying it (sequential or concurrent with the accepted one)
\* fails, with invalid_request once its client authentication has passed,
\* and creates nothing.
C10_JarAcceptedOnce ==
  /\ \A client_id \in ClientIds, jti \in {"j1", "j2"} :
       Cardinality(CreatedFromJar(client_id, jti)) <= 1
  /\ \A c \in CallIds :
       JarDone(c) =>
         LET made == CreatedFromJar(calls[c].args.credentials.client_id,
                                    JarOf(c).jti)
         IN  IF Succeeded(c, "par")
             THEN made = {e \in log : e.kind = "request"
                                      /\ e.uri = calls[c].value.request_uri}
             ELSE calls[c].error.error \in
                    {"invalid_request"} \cup
                    (IF calls[c].args.credentials.method = "none" THEN {}
                     ELSE {"invalid_client", "invalid_grant"})

\* Two pushed requests with the same request object, both answered: one was
\* accepted, the other refused with invalid_request.
C10_Witness ==
  \E c, d \in CallIds :
    /\ c # d /\ JarDone(c) /\ JarDone(d)
    /\ calls[c].args = calls[d].args
    /\ Succeeded(c, "par")
    /\ Failed(d, "par") /\ calls[d].error.error = "invalid_request"

\* ------------------------------------------- the interactive authorization

\* Authorization requests created in the specifications of the interactive
\* authorization and of the token endpoint.
MaxAuthzRequests == 1

\* The request_uri, code and token values issued so far: they are
\* unguessable, a request presents one that was issued.
IssuedUris == 1 .. (nextUri - 1)
IssuedCodes == 1 .. (nextCode - 1)
IssuedTokens == 1 .. (nextToken - 1)
RequestUriQueries == {[request_uri |-> u] : u \in IssuedUris}

\* A session authenticated at time t, which has authorized these clients.
Session(t, clients) ==
  [authenticatedAt |-> t, remember |-> TRUE, authorizedClients |-> clients]

\* alice is signed in on both devices, and has authorized client c1 on d1.
InitAuthz ==
  InitWith(Put(Put(<< >>, << "d1", "alice" >>, Session(0, {"c1"})),
               << "d2", "alice" >>, Session(0, {})))

\* A request that GET /authorize answers with the authorization page, and one
\* that it approves at once on device d1 (alice is the login_hint).
PageParameters == Parameters("h1", "S256", NULL, NULL, NULL)
HintParameters == Parameters("h1", "S256", NULL, NULL, "alice")

\* POST /oauth/par from client c1, while requests may be created.
authz_pushedAuthorizationRequest(c) ==
  /\ MayCreate(MaxAuthzRequests)
  /\ pushedAuthorizationRequest(c, {CredentialsNone("c1")},
                                {PageParameters, HintParameters}, {NULL})

NextAuthz ==
  \/ Tick
  \/ \E c \in CallIds :
       \/ authz_pushedAuthorizationRequest(c)
       \/ pushedAuthorizationRequest_createAuthorizationRequest(c)
       \/ authorize(c, ClientIds, RequestUriQueries, DeviceIds)
       \/ authorize_getSessions(c)
       \/ authorize_setAuthorized(c)
       \/ authorize_deleteRequest(c)
       \/ acceptRequest(c, IssuedUris, DeviceIds, {"alice"})
       \/ acceptRequest_accountManager_get(c)
       \/ acceptRequest_setAuthorized(c)
       \/ acceptRequest_addAuthorizedClient(c)
       \/ acceptRequest_deleteRequest(c)
       \/ rejectRequest(c, IssuedUris, DeviceIds)
       \/ rejectRequest_deleteRequest(c)
       \/ Respond(c)

SpecAuthz == InitAuthz /\ [][NextAuthz]_vars

\* ----------------------------------------------- the loading of a request

SignInData == {[sub |-> "alice", valid |-> TRUE, remember |-> TRUE]}
SignUpData == {[sub |-> "bob", valid |-> TRUE]}

\* POST /oauth/par from client c1, for the authorization page.
load_pushedAuthorizationRequest(c) ==
  /\ MayCreate(MaxAuthzRequests)
  /\ pushedAuthorizationRequest(c, {CredentialsNone("c1")}, {PageParameters},
                                {NULL})

NextLoad ==
  \/ Tick
  \/ \E c \in CallIds :
       \/ load_pushedAuthorizationRequest(c)
       \/ pushedAuthorizationRequest_createAuthorizationRequest(c)
       \/ authorize(c, ClientIds, RequestUriQueries, DeviceIds)
       \/ authorize_getSessions(c)
       \/ acceptRequest(c, IssuedUris, DeviceIds, {"alice"})
       \/ acceptRequest_accountManager_get(c)
       \/ acceptRequest_setAuthorized(c)
       \/ acceptRequest_addAuthorizedClient(c)
       \/ acceptRequest_deleteRequest(c)
       \/ rejectRequest(c, IssuedUris, DeviceIds)
       \/ rejectRequest_deleteRequest(c)
       \/ signIn(c, IssuedUris, DeviceIds, SignInData)
       \/ signIn_accountManager_signIn(c)
       \/ signUp(c, IssuedUris, DeviceIds, SignUpData)
       \/ signUp_accountManager_signUp(c)
       \/ Respond(c)

SpecLoad == InitAuthz /\ [][NextLoad]_vars

\* ------------------------------------------- the life of a request, on d1

\* The token requests presenting an issued code, with these verifiers.
CodeGrantRequests(Verifiers) ==
  {CodeGrantRequest(code, v) : code \in IssuedCodes, v \in Verifiers}

NextFlow ==
  \E c \in CallIds :
    \/ load_pushedAuthorizationRequest(c)
    \/ pushedAuthorizationRequest_createAuthorizationRequest(c)
    \/ authorize(c, {"c1"}, RequestUriQueries, {"d1"})
    \/ authorize_getSessions(c)
    \/ acceptRequest(c, IssuedUris, {"d1"}, {"alice"})
    \/ acceptRequest_accountManager_get(c)
    \/ acceptRequest_setAuthorized(c)
    \/ acceptRequest_addAuthorizedClient(c)
    \/ acceptRequest_deleteRequest(c)
    \/ rejectRequest(c, IssuedUris, {"d1"})
    \/ rejectRequest_deleteRequest(c)
    \/ token(c, {CredentialsNone("c1")}, CodeGrantRequests({"v1"}), {NULL})
    \/ codeGrant_findCode(c)
    \/ codeGrant_uniqueCodeChallenge(c)
    \/ codeGrant_accountManager_get(c)
    \/ codeGrant_create(c)
    \/ codeGrant_revoke(c)
    \/ Respond(c)

SpecFlow == InitAuthz /\ [][NextFlow]_vars

\* ---------------------------------------------------------- the code grant

\* Pushed requests that GET /authorize approves at once, bound to a key by
\* their dpop_jkt parameter, by the DPoP proof pushed with them, or not bound.
code_pushedAuthorizationRequest(c) ==
  /\ MayCreate(MaxAuthzRequests)
  /\ pushedAuthorizationRequest(
       c, {CredentialsNone("c1")},
       {HintParameters, Parameters("h1", "S256", "J1", NULL, "alice")},
       {NULL, "J1"})

NextCode ==
  \E c \in CallIds :
    \/ code_pushedAuthorizationRequest(c)
    \/ pushedAuthorizationRequest_createAuthorizationRequest(c)
    \/ authorize(c, {"c1"}, RequestUriQueries, {"d1"})
    \/ authorize_getSessions(c)
    \/ authorize_setAuthorized(c)
    \/ authorize_deleteRequest(c)
    \/ token(c, {CredentialsNone("c1")}, CodeGrantRequests(CodeVerifiers),
             {NULL, "J1", "J2"})
    \/ codeGrant_findCode(c)
    \/ codeGrant_uniqueCodeChallenge(c)
    \/ codeGrant_accountManager_get(c)
    \/ codeGrant_create(c)
    \/ codeGrant_revoke(c)
    \/ Respond(c)

SpecCode == InitAuthz /\ [][NextCode]_vars

\* ------------------------------------------------------- the refresh grant

\* POST /oauth/par from client c1, for a request approved at once.
hint_pushedAuthorizationRequest(c) ==
  /\ MayCreate(MaxAuthzRequests)
  /\ pushedAuthorizationRequest(c, {CredentialsNone("c1")}, {HintParameters},
                                {NULL})

\* The token requests presenting an issued code or an issued refresh token.
RefreshRequests ==
  CodeGrantRequests({"v1"}) \cup {RefreshGrantRequest(t) : t \in IssuedTokens}

NextRefresh ==
  \E c \in CallIds :
    \/ hint_pushedAuthorizationRequest(c)
    \/ pushedAuthorizationRequest_createAuthorizationRequest(c)
    \/ authorize(c, {"c1"}, RequestUriQueries, {"d1"})
    \/ authorize_getSessions(c)
    \/ authorize_setAuthorized(c)
    \/ authorize_deleteRequest(c)
    \/ token(c, {CredentialsNone("c1")}, RefreshRequests, {NULL})
    \/ codeGrant_findCode(c)
    \/ codeGrant_uniqueCodeChallenge(c)
    \/ codeGrant_accountManager_get(c)
    \/ codeGrant_create(c)
    \/ codeGrant_revoke(c)
    \/ refreshTokenGrant_find(c)
    \/ refreshTokenGrant_rotate(c)
    \/ refreshTokenGrant_revoke(c)
    \/ Respond(c)

SpecRefresh == InitAuthz /\ [][NextRefresh]_vars

\* ------------------------------------------- the presentation of a token

\* POST /oauth/par from client c1, for a request approved at once, pushed
\* with a DPoP proof or without.
bound_pushedAuthorizationRequest(c) ==
  /\ MayCreate(MaxAuthzRequests)
  /\ pushedAuthorizationRequest(c, {CredentialsNone("c1")}, {HintParameters},
                                {NULL, "J1"})

\* The access tokens presented: the opaque ids issued, and signed tokens.
PresentedTokens ==
  {TokenId(t) : t \in IssuedTokens}
    \cup {SignedToken(1, jkt, TRUE) : jkt \in {NULL, "J1"}}

NextVerify ==
  \E c \in CallIds :
    \/ bound_pushedAuthorizationRequest(c)
    \/ pushedAuthorizationRequest_createAuthorizationRequest(c)
    \/ authorize(c, {"c1"}, RequestUriQueries, {"d1"})
    \/ authorize_getSessions(c)
    \/ authorize_setAuthorized(c)
    \/ authorize_deleteRequest(c)
    \/ token(c, {CredentialsNone("c1")}, CodeGrantRequests({"v1"}), {NULL, "J1"})
    \/ codeGrant_findCode(c)
    \/ codeGrant_uniqueCodeChallenge(c)
    \/ codeGrant_accountManager_get(c)
    \/ codeGrant_create(c)
    \/ codeGrant_revoke(c)
    \/ authenticateRequest(c, {"auto", "jwt"}, {"DPoP", "Bearer"},
                           PresentedTokens, {NULL, "J1", "J2"})
    \/ Respond(c)

SpecVerify == InitAuthz /\ [][NextVerify]_vars

\* ------------------------------------------------------------- properties

\* A finished token call of the authorization_code grant.
CodeGrantDone(c) ==
  Done(c, "token") /\ calls[c].args.request.grant_type = "authorization_code"

\* The tokens issued so far for a code.
IssuedFor(code) ==
  {e \in log : e.kind = "token" /\ e.via = "code" /\ e.code = code}

\* The authorization request a code grant token was issued from, as created.
RequestOf(t) == {q \in log : q.kind = "request" /\ q.uri = t.uri}

\* C1: for every authorization code, whatever the sequence or interleaving of
\* the token requests presenting it, findCode succeeds at most once, at most
\* one token is issued, and at most one of the calls returns tokens.
C1_CodeUsedOnce ==
  \A code \in 1 .. MaxCodes :
    /\ Cardinality({e \in log : e.kind = "findCode" /\ e.code = code}) <= 1
    /\ Cardinality(IssuedFor(code)) <= 1
    /\ Cardinality({c \in CallIds : /\ CodeGrantDone(c)
                                    /\ Succeeded(c, "token")
                                    /\ calls[c].args.request.code = code}) <= 1

\* Two token requests presented the same code with the same verifier and
\* proof: one got the tokens, the other was refused with invalid_grant.
C1_Witness ==
  \E c, d \in CallIds :
    /\ c # d /\ CodeGrantDone(c) /\ CodeGrantDone(d)
    /\ calls[c].args = calls[d].args
    /\ Succeeded(c, "token")
    /\ Failed(d, "token") /\ calls[d].error.error = "invalid_grant"

\* C2: once two token requests presenting the same code have both completed,
\* no token issued for that code remains in the token store, under every
\* interleaving of the two.
C2_SecondPresentationRevokes ==
  \A c, d \in CallIds :
    ( /\ c # d /\ CodeGrantDone(c) /\ CodeGrantDone(d)
      /\ calls[c].args.request.code = calls[d].args.request.code )
    => \A t \in DOMAIN tokenStore :
         tokenStore[t].code # calls[c].args.request.code

\* C8: every token issued by a code grant was requested with the DPoP proof
\* the authorization request is bound to: its dpop_jkt parameter or, without
\* one, the key of the DPoP proof sent with the pushed request; and with no
\* proof at all when the request is not bound.
C8_DpopBinding ==
  \A t \in log :
    (t.kind = "token" /\ t.via = "code") =>
      \A q \in RequestOf(t) :
        t.proof = (IF q.dpop_jkt # NULL THEN q.dpop_jkt ELSE q.proof)

\* A token was issued, with a proof of key J1, for a request pushed without
\* dpop_jkt parameter but with a proof of key J1; and a token request for a
\* bound authorization was refused.
C8_Witness ==
  /\ \E t \in log :
       /\ t.kind = "token" /\ t.via = "code" /\ t.proof = "J1"
       /\ \E q \in RequestOf(t) : q.dpop_jkt = NULL /\ q.proof = "J1"
  /\ \E c \in CallIds :
       /\ CodeGrantDone(c) /\ Failed(c, "token")
       /\ calls[c].args.dpopJkt = "J2"

\* The code_verifier of a finished code grant does not answer the
\* code_challenge of the authorization request its code was issued for.
PkceMismatch(c) ==
  \E e \in log, q \in log :
    /\ e.kind = "code" /\ e.code = calls[c].args.request.code
    /\ q.kind = "request" /\ q.uri = e.uri
    /\ CodeChallengeOf(q.code_challenge_method,
                       calls[c].args.request.code_verifier) # q.code_challenge

\* C9: a code grant whose code_verifier does not match the code_challenge of
\* the authorization request fails with invalid_grant, status 400, and no
\* token is ever issued to a verifier that does not match.
C9_PkceMismatch ==
  /\ \A c \in CallIds :
       (CodeGrantDone(c) /\ PkceMismatch(c)) =>
         /\ Failed(c, "token")
         /\ calls[c].error.error = "invalid_grant"
         /\ buildErrorStatus(calls[c].error) = 400
  /\ \A t \in log :
       (t.kind = "token" /\ t.via = "code") =>
         \A q \in RequestOf(t) :
           CodeChallengeOf(q.code_challenge_method, t.code_verifier)
             = q.code_challenge

\* A code grant with the wrong verifier consumed the code and was refused:
\* no token was issued for the code.
C9_Witness ==
  \E c \in CallIds :
    /\ CodeGrantDone(c) /\ PkceMismatch(c) /\ Failed(c, "token")
    /\ \E e \in log : e.kind = "findCode" /\ e.code = calls[c].args.request.code
    /\ IssuedFor(calls[c].args.request.code) = {}

\* A finished token call of the refresh_token grant.
RefreshDone(c) ==
  Done(c, "token") /\ calls[c].args.request.grant_type = "refresh_token"

\* The rotations of a refresh token so far.
RotatedFrom(r) ==
  {e \in log : e.kind = "token" /\ e.via = "refresh" /\ e.from = r}

\* Call c completes in this step.
Completes(c) == calls[c].pc # "done" /\ calls'[c].pc = "done"

C3_Redemptions ==
  \A r \in IssuedTokens :
    /\ Cardinality(RotatedFrom(r)) <= 1
    /\ Cardinality({c \in CallIds : /\ RefreshDone(c)
                                    /\ Succeeded(c, "token")
                                    /\ calls[c].args.request.refresh_token = r}) <= 1

C3_Replay ==
  /\ \A c \in CallIds :
       ( /\ Completes(c)
         /\ calls'[c].op = "token"
         /\ calls'[c].args.request.grant_type = "refresh_token"
         /\ RotatedFrom(calls'[c].args.request.refresh_token) # {} )
       => /\ calls'[c].error.error = "invalid_grant"
          /\ \A e \in RotatedFrom(calls'[c].args.request.refresh_token) :
               \A t \in DOMAIN tokenStore' : tokenStore'[t].root # e.root
  /\ \A t \in DOMAIN tokenStore' \ DOMAIN tokenStore :
       \/ tokenStore'[t].previous = NoId
       \/ /\ tokenStore'[t].previous \in DOMAIN tokenStore
          /\ ~tokenStore[tokenStore'[t].previous].consumed

\* C3: every refresh token is rotated at most once and at most one refresh
\* grant presenting it succeeds, also when two present it concurrently; a
\* refresh grant that presents a token already rotated out completes with
\* invalid_grant and leaves no token of the lineage in the store, successor
\* included; and a token is only ever added to a lineage by rotating a token
\* that is in the store and not consumed, so a revoked lineage stays revoked.
C3_RefreshSingleUse == []C3_Redemptions /\ [][C3_Replay]_vars

\* Two refresh grants presented the same refresh token: one succeeded, the
\* other was refused with invalid_grant, and neither the token nor the
\* successor the first one obtained is in the store any more.
C3_Witness ==
  \E c, d \in CallIds :
    /\ c # d /\ RefreshDone(c) /\ RefreshDone(d)
    /\ calls[c].args = calls[d].args
    /\ Succeeded(c, "token")
    /\ Failed(d, "token") /\ calls[d].error.error = "invalid_grant"
    /\ calls[c].value.refresh_token \notin DOMAIN tokenStore
    /\ calls[c].args.request.refresh_token \notin DOMAIN tokenStore

\* The codes issued so far for a request_uri.
CodesFor(uri) == {e \in log : e.kind = "code" /\ e.uri = uri}

\* Call c is about to call requestManager.setAuthorized, for this uri.
AtSetAuthorized(c) ==
  calls[c].op \in {"authorize", "accept"} /\ calls[c].pc = "setAuthorized"
SetAuthorizedUri(c) ==
  IF calls[c].op = "authorize" THEN calls[c].uri ELSE calls[c].args.requestUri

C4_Later ==
  \A c \in CallIds :
    ( /\ AtSetAuthorized(c)
      /\ calls'[c] # calls[c]
      /\ CodesFor(SetAuthorizedUri(c)) # {} )
    => /\ calls'[c].pc = "deleteRequest"
       /\ calls'[c].err.error = "invalid_grant"
       /\ log' = log
       /\ nextCode' = nextCode

\* C4: for every request_uri at most one code is ever issued, whether by the
\* automatic approval of GET /authorize or by acceptRequest and however they
\* interleave; and a setAuthorized made for a request_uri that has a code
\* fails with invalid_grant and issues no code.
C4_SetAuthorizedOnce ==
  [](\A uri \in IssuedUris : Cardinality(CodesFor(uri)) <= 1) /\ [][C4_Later]_vars

\* A call whose setAuthorized was refused with invalid_grant, for a
\* request_uri that has a code.
C4_Witness ==
  \E c \in CallIds :
    /\ calls[c].op \in {"authorize", "accept"}
    /\ calls[c].pc = "deleteRequest"
    /\ calls[c].err.error = "invalid_grant"
    /\ CodesFor(SetAuthorizedUri(c)) # {}

\* The handlers that load an authorization request, and the request_uri a
\* frame of theirs loads.
Loaders == {"authorize", "accept", "reject", "signIn", "signUp"}
LoadedUri(f) ==
  IF f.op = "authorize" THEN f.args.query.request_uri ELSE f.args.requestUri
Loads(f) ==
  /\ f.op \in Loaders
  /\ f.op = "authorize" => "request_uri" \in DOMAIN f.args.query

\* A loading call is received in this step, in frame c.
Received(c) == calls[c].op = "idle" /\ Loads(calls'[c])

\* C5 (as stated): no two GET /authorize are accepted for the same
\* request_uri, no two accept or reject calls succeed for the same
\* request_uri, and the request of an exchanged code is deleted.
C5_AcceptedExactlyOnce ==
  /\ \A c, d \in CallIds :
       (c # d /\ Succeeded(c, "authorize") /\ Succeeded(d, "authorize"))
         => calls[c].args.query.request_uri # calls[d].args.query.request_uri
  /\ \A c, d \in CallIds :
       ( /\ c # d
         /\ Succeeded(c, "accept") \/ Succeeded(c, "reject")
         /\ Succeeded(d, "accept") \/ Succeeded(d, "reject") )
         => calls[c].args.requestUri # calls[d].args.requestUri
  /\ \A t \in log :
       (t.kind = "token" /\ t.via = "code") => t.uri \notin DOMAIN requestStore

C5_Deleted ==
  /\ \A uri \in IssuedUris :
       Cardinality({e \in CodesFor(uri) : e.via = "accept"}) <= 1
  /\ \A c \in CallIds :
       Succeeded(c, "reject") => calls[c].args.requestUri \notin DOMAIN requestStore
  /\ \A t \in log :
       (t.kind = "token" /\ t.via = "code") => t.uri \notin DOMAIN requestStore

C5_Refused ==
  \A c \in CallIds :
    ( /\ Received(c)
      /\ calls'[c].op \in {"authorize", "accept", "reject"}
      /\ LoadedUri(calls'[c]) \notin DOMAIN requestStore )
    => /\ calls'[c].pc = "done"
       /\ calls'[c].error.error = "invalid_grant"
       /\ requestStore' = requestStore

\* C5 (amended): at most one accept obtains a code for a request_uri; the
\* request of a successful reject and the request of an exchanged code are
\* deleted; and a GET /authorize, accept or reject received for a deleted
\* request is refused with invalid_grant.
C5_DeletedThenRefused == []C5_Deleted /\ [][C5_Refused]_vars

\* The code of a request was exchanged for a token, and a GET /authorize for
\* that request_uri was refused with invalid_grant.
C5_Witness ==
  \E t \in log, c \in CallIds :
    /\ t.kind = "token" /\ t.via = "code"
    /\ Failed(c, "authorize")
    /\ calls[c].args.query.request_uri = t.uri
    /\ calls[c].error.error = "invalid_grant"

\* The request a frame loads cannot be loaded: it is missing, expired, bound
\* to another device or (at GET /authorize) of another client.
Unavailable(f) ==
  LET uri == LoadedUri(f) IN
  \/ uri \notin DOMAIN requestStore
  \/ /\ uri \in DOMAIN requestStore
     /\ \/ requestStore[uri].expiresAt < now
        \/ requestStore[uri].deviceId \notin {NULL, f.args.deviceId}
        \/ f.op = "authorize" /\ requestStore[uri].clientId # f.args.client_id

C6_Load ==
  /\ \A c \in CallIds :
       (Received(c) /\ Unavailable(calls'[c]))
         => /\ calls'[c].pc = "done"
            /\ calls'[c].error.error = "invalid_grant"
            /\ requestStore' = requestStore
            /\ accountStore' = accountStore
  /\ \A c \in CallIds :
       (calls'[c] # calls[c] /\ Loads(calls'[c]))
         => \A uri \in DOMAIN requestStore :
              requestStore[uri].deviceId \notin {NULL, calls'[c].args.deviceId}
                => /\ uri \in DOMAIN requestStore'
                   /\ requestStore'[uri] = requestStore[uri]

\* C6: a call of authorize, signIn, signUp, acceptRequest or rejectRequest
\* received for a request that is missing, expired, bound to another device
\* or (at GET /authorize) created for another client fails at once with
\* invalid_grant and changes nothing; and no step of a call made from a
\* device changes a request that is bound to another device.
C6_LoadChecked == [][C6_Load]_vars

\* An accept or reject made from another device than the one an unexpired
\* request is bound to was refused with invalid_grant; the request is there.
C6_Witness ==
  \E c \in CallIds :
    /\ Failed(c, "accept") \/ Failed(c, "reject")
    /\ calls[c].error.error = "invalid_grant"
    /\ calls[c].args.requestUri \in DOMAIN requestStore
    /\ requestStore[calls[c].args.requestUri].expiresAt >= now
    /\ requestStore[calls[c].args.requestUri].deviceId
         \notin {NULL, calls[c].args.deviceId}

\* The key a presented token is bound to: the cnf.jkt claim of a signed
\* token, the dpop_jkt the token of an opaque id was issued with.
BoundTo(accessToken) ==
  IF accessToken.kind = "jwt" THEN accessToken.cnf_jkt
  ELSE LET issued == {e \in log : e.kind = "token" /\ e.id = accessToken.id}
       IN  IF issued = {} THEN NULL ELSE (CHOOSE e \in issued : TRUE).dpop_jkt

\* C7: every presentation of a DPoP-bound token, opaque id or signed token,
\* with a proof of another key or with no proof is rejected, with status 401.
C7_WrongProofRejected ==
  \A c \in CallIds :
    Done(c, "authenticateToken") =>
      LET a == calls[c].args
          jkt == BoundTo(a.token)
      IN  (jkt # NULL /\ a.dpopJkt # jkt) =>
            /\ Failed(c, "authenticateToken")
            /\ buildErrorStatus(calls[c].error) = 401

\* The opaque id of a token bound to key J1 was presented twice as a DPoP
\* token: with a proof of key J1 it was accepted, with a proof of key J2 it
\* was rejected.
C7_Witness ==
  \E c, d \in CallIds :
    /\ Succeeded(c, "authenticateToken") /\ Failed(d, "authenticateToken")
    /\ calls[c].args.token = calls[d].args.token
    /\ calls[c].args.token.kind = "id"
    /\ BoundTo(calls[c].args.token) = "J1"
    /\ calls[c].args.dpopJkt = "J1"
    /\ calls[d].args.dpopJkt = "J2"
    /\ calls[d].args.tokenType = "DPoP"

\* ------------------------------------- client authentication and replays

\* alice is signed in on device d1 and has authorized every client there.
InitReplay ==
  InitWith(Put(<< >>, << "d1", "alice" >>,
               Session(0, {"c1", "c2", "n1"})))

\* The credentials presented: the none method, and a client assertion.
ReplayCredentials ==
  { CredentialsNone("c1"), CredentialsJwt("c2", "a1", "K1", TRUE) }

\* The pushed requests: parameters approved at once by GET /authorize, plain
\* or inside a request object.
ReplayRequests ==
  { HintParameters,
    [request |-> RequestObject("j1", HintParameters, FALSE, NULL, TRUE)] }

NextReplay ==
  \E c \in CallIds :
    \/ pushedAuthorizationRequest(c, ReplayCredentials, ReplayRequests, {NULL})
    \/ pushedAuthorizationRequest_decodeJAR(c)
    \/ pushedAuthorizationRequest_createAuthorizationRequest(c)
    \/ authorize(c, {"c1"}, RequestUriQueries, {"d1"})
    \/ authorize_getSessions(c)
    \/ authorize_setAuthorized(c)
    \/ authorize_deleteRequest(c)
    \/ token(c, ReplayCredentials, CodeGrantRequests({"v1"}), {NULL})
    \/ codeGrant_findCode(c)
    \/ codeGrant_uniqueCodeChallenge(c)
    \/ codeGrant_accountManager_get(c)
    \/ codeGrant_create(c)
    \/ codeGrant_revoke(c)
    \/ Respond(c)

SpecReplay == InitReplay /\ [][NextReplay]_vars

\* The step in which frame c receives a request of the PAR, token or
\* introspection endpoint.
Arrives(c) ==
  /\ calls[c].op = "idle"
  /\ calls'[c].op \in {"par", "token", "introspect"}

\* Client authentication reaches uniqueAuth with these credentials: the
\* client is known, the assertion verifies, the method suits the client.
ReachesUniqueAuth(credentials) ==
  /\ ClientManager_getClient(credentials.client_id).error = NULL
  /\ Client_verifyCredentials(credentials).error.error = NULL
  /\ Client_verifyCredentials(credentials).nonce # NULL
  /\ ~ /\ ClientMetadata(credentials.client_id).application_type = "native"
       /\ Client_verifyCredentials(credentials).clientAuth.method # "none"

\* The key uniqueAuth looks for.
AuthKey(credentials) ==
  ReplayKey("client_assertion", credentials.client_id,
            Client_verifyCredentials(credentials).nonce)

\* In this step uniqueAuth reports a replay to the call of frame c.
ReplayedAuth(c) ==
  /\ Arrives(c)
  /\ ReachesUniqueAuth(calls'[c].args.credentials)
  /\ AuthKey(calls'[c].args.credentials) \in replayStore

\* In this step uniqueJar reports a replay to the PAR call of frame c.
ReplayedJar(c) ==
  /\ At(c, "par", "decodeJAR")
  /\ calls'[c] # calls[c]
  /\ LET a == calls[c].args
         request == a.authorizationRequest.request
     IN  /\ Client_decodeRequestObject(request).error = NULL
         /\ request.jti # NULL
         /\ ReplayKey("jar", a.credentials.client_id, request.jti) \in replayStore

\* In this step uniqueCodeChallenge reports a replay to the token call of
\* frame c.
ReplayedChallenge(c) ==
  /\ At(c, "token", "uniqueCodeChallenge")
  /\ calls'[c] # calls[c]
  /\ ReplayKey("code_challenge", NULL, calls[c].found.parameters.code_challenge)
       \in replayStore

\* After this step the call of frame c has failed with this error code, or
\* (in codeGrant) is in the catch block that rethrows it.
FailsWith(c, code) ==
  \/ calls'[c].pc = "done" /\ calls'[c].error.error = code
  \/ /\ calls'[c].op = "token"
     /\ calls'[c].pc = "revoke"
     /\ calls'[c].err.error = code

\* The catch block of codeGrant ends the call with the error it caught.
Rethrows(c) ==
  (At(c, "token", "revoke") /\ calls'[c] # calls[c])
    => calls'[c].pc = "done" /\ calls'[c].error = calls[c].err

\* C11 (as stated): whenever uniqueAuth, uniqueJar or uniqueCodeChallenge
\* reports a replay, the enclosing endpoint call fails with invalid_grant.
C11_ReplayIsInvalidGrant ==
  [][\A c \in CallIds :
       /\ (ReplayedAuth(c) \/ ReplayedJar(c) \/ ReplayedChallenge(c))
            => FailsWith(c, "invalid_grant")
       /\ Rethrows(c)]_vars

\* C11 (amended): whenever uniqueAuth or uniqueCodeChallenge reports a
\* replay, the enclosing endpoint call fails with invalid_grant; whenever
\* uniqueJar reports one, the pushed authorization request fails with
\* invalid_request; a failed call never creates a request or a token.
C11_ReplayFails ==
  [][\A c \in CallIds :
       /\ (ReplayedAuth(c) \/ ReplayedChallenge(c))
            => FailsWith(c, "invalid_grant")
       /\ ReplayedJar(c) => FailsWith(c, "invalid_request")
       /\ (ReplayedAuth(c) \/ ReplayedJar(c) \/ ReplayedChallenge(c))
            => UNCHANGED << requestStore, tokenStore, replayStore, log >>
       /\ Rethrows(c)]_vars

\* A pushed request failed on the replay of its request object, and a call
\* failed on the replay of its client assertion.
C11_Witness ==
  \E c, d \in CallIds :
    /\ JarDone(c)
    /\ calls[c].error.error = "invalid_request"
    /\ ReplayKey("jar", calls[c].args.credentials.client_id, JarOf(c).jti)
         \in replayStore
    /\ \E e \in log : e.kind = "request" /\ e.jar = JarOf(c).jti
    /\ Done(d, "par")
    /\ calls[d].args.credentials.method = "private_key_jwt"
    /\ calls[d].error.error = "invalid_grant"
    /\ AuthKey(calls[d].args.credentials) \in replayStore

\* ------------------------------------- client authentication, by endpoint

\* The credentials presented at the PAR, token and introspection endpoints:
\* a native client with the none method and with a client assertion, and a
\* web client with one client assertion or another.
AuthCredentials ==
  { CredentialsNone("n1"), CredentialsJwt("n1", "a1", "K2", TRUE),
    CredentialsJwt("c2", "a1", "K1", TRUE),
    CredentialsJwt("c2", "a2", "K1", TRUE) }

\* POST /oauth/par for a request approved at once.
auth_pushedAuthorizationRequest(c) ==
  /\ MayCreate(MaxAuthzRequests)
  /\ pushedAuthorizationRequest(c, AuthCredentials, {HintParameters}, {NULL})

NextClientAuth ==
  \E c \in CallIds :
    \/ auth_pushedAuthorizationRequest(c)
    \/ pushedAuthorizationRequest_createAuthorizationRequest(c)
    \/ authorize(c, {"n1", "c2"}, RequestUriQueries, {"d1"})
    \/ authorize_getSessions(c)
    \/ authorize_setAuthorized(c)
    \/ authorize_deleteRequest(c)
    \/ token(c, AuthCredentials, CodeGrantRequests({"v1"}), {NULL})
    \/ codeGrant_findCode(c)
    \/ codeGrant_uniqueCodeChallenge(c)
    \/ codeGrant_accountManager_get(c)
    \/ codeGrant_create(c)
    \/ codeGrant_revoke(c)
    \/ introspect(c, AuthCredentials, IssuedTokens)
    \/ introspect_clientTokenInfo(c)
    \/ Respond(c)

SpecClientAuth == InitReplay /\ [][NextClientAuth]_vars

\* After the step in which it arrived, the call of frame c has passed client
\* authentication: it has not failed, or (at the introspection endpoint,
\* which refuses the none method afterwards) not with invalid_grant.
Authenticated(c) ==
  \/ calls'[c].pc # "done"
  \/ calls'[c].op = "introspect" /\ calls'[c].error.error = "unauthorized_client"

\* C12: a client assertion whose jti was accepted for its client is rejected
\* with invalid_grant at every later client authentication of that client,
\* at the PAR, token and introspection endpoints alike; an assertion that is
\* accepted is recorded, and records are kept, so that one assertion
\* authenticates at most one request; credentials of the none method are
\* never recorded and never rejected as a replay.
C12_AssertionUsedOnce ==
  [][/\ replayStore \subseteq replayStore'
     /\ \A c \in CallIds :
          Arrives(c) =>
            LET credentials == calls'[c].args.credentials IN
            /\ (ReachesUniqueAuth(credentials)
                  /\ AuthKey(credentials) \in replayStore)
                 => /\ calls'[c].pc = "done"
                    /\ calls'[c].error = InvalidGrantError
                    /\ replayStore' = replayStore
            /\ (ReachesUniqueAuth(credentials)
                  /\ AuthKey(credentials) \notin replayStore)
                 => /\ Authenticated(c)
                    /\ AuthKey(credentials) \in replayStore'
            /\ credentials.method = "none"
                 => /\ Authenticated(c)
                    /\ replayStore' = replayStore]_vars

\* A client assertion was accepted with a pushed request, and the same
\* assertion was then refused at the introspection endpoint.
C12_Witness ==
  \E c, d \in CallIds :
    /\ Succeeded(c, "par")
    /\ calls[c].args.credentials.method = "private_key_jwt"
    /\ Done(d, "introspect")
    /\ calls[d].args.credentials = calls[c].args.credentials
    /\ calls[d].error = InvalidGrantError

\* The credentials of a client assertion that verifies, from a native client.
NativeAssertion(credentials) ==
  /\ ClientMetadata(credentials.client_id).application_type = "native"
  /\ Client_verifyCredentials(credentials).error.error = NULL
  /\ Client_verifyCredentials(credentials).clientAuth.method # "none"

\* C14: at the token endpoint, and at the PAR and introspection endpoints
\* alike, a request of a native client that authenticates with a client
\* assertion (any method but none) fails at once with invalid_grant; no
\* authorization request and no token of a native client is ever held for
\* another method than none.
C14_NativeMustUseNone ==
  /\ \A c \in CallIds :
       (calls[c].op \in {"par", "token", "introspect"}
          /\ NativeAssertion(calls[c].args.credentials))
         => calls[c].pc = "done" /\ calls[c].error = InvalidGrantError
  /\ \A id \in DOMAIN tokenStore :
       ClientMetadata(tokenStore[id].clientId).application_type = "native"
         => tokenStore[id].clientAuth.method = "none"
  /\ \A uri \in DOMAIN requestStore :
       ClientMetadata(requestStore[uri].clientId).application_type = "native"
         => requestStore[uri].clientAuth.method = "none"

\* A native client presented a code issued to it at the token endpoint,
\* with a client assertion, and was refused.
C14_Witness ==
  \E c \in CallIds :
    /\ CodeGrantDone(c)
    /\ NativeAssertion(calls[c].args.credentials)
    /\ calls[c].error = InvalidGrantError
    /\ \E e \in log, q \in log :
         /\ e.kind = "code" /\ e.code = calls[c].args.request.code
         /\ q.kind = "request" /\ q.uri = e.uri
         /\ q.client_id = calls[c].args.credentials.client_id
    /\ tokenStore = << >>

\* ------------------------------------------- the code_challenge, used once

\* The pushed requests of two clients, with the same code_challenge, each
\* approved at once by GET /authorize.
ChallengeCredentials == {CredentialsNone("c1"), CredentialsNone("c2")}
ChallengeRequests == {HintParameters}

NextChallenge ==
  \E c \in CallIds :
    \/ pushedAuthorizationRequest(c, ChallengeCredentials, ChallengeRequests,
                                  {NULL})
    \/ pushedAuthorizationRequest_createAuthorizationRequest(c)
    \/ authorize(c, {"c1", "c2"}, RequestUriQueries, DeviceIds)
    \/ authorize_getSessions(c)
    \/ authorize_setAuthorized(c)
    \/ authorize_deleteRequest(c)
    \/ token(c, ChallengeCredentials, CodeGrantRequests({"v1"}), {NULL})
    \/ codeGrant_findCode(c)
    \/ codeGrant_uniqueCodeChallenge(c)
    \/ codeGrant_accountManager_get(c)
    \/ codeGrant_create(c)
    \/ codeGrant_revoke(c)
    \/ Respond(c)

SpecChallenge == InitReplay /\ [][NextChallenge]_vars

\* The tokens issued by code grants whose authorization request carries
\* this code_challenge.
IssuedForChallenge(h) ==
  {t \in log : /\ t.kind = "token" /\ t.via = "code"
               /\ \E q \in RequestOf(t) : q.code_challenge = h}

\* In every state, a code_challenge has at most one token, and the
\* challenge of an issued token is recorded.
C13_AtMostOne ==
  \A h \in {"h1"} :
    /\ Cardinality(IssuedForChallenge(h)) <= 1
    /\ IssuedForChallenge(h) # {}
         => ReplayKey("code_challenge", NULL, h) \in replayStore

\* A code grant that finds the challenge of its request recorded fails with
\* invalid_grant and issues nothing; records are kept.
C13_Later ==
  /\ replayStore \subseteq replayStore'
  /\ \A c \in CallIds :
       /\ ReplayedChallenge(c)
            => FailsWith(c, "invalid_grant") /\ UNCHANGED << tokenStore, log >>
       /\ Rethrows(c)
       /\ (At(c, "token", "revoke") /\ calls'[c] # calls[c]) => UNCHANGED log

InitFresh ==
  \E t \in 0 .. MaxTime + 1 :
    InitWith(Put(<< >>, << "d1", "alice" >>, Session(t, {"c1"})))

\* A request that forces a new login.
LoginParameters == Parameters("h1", "S256", NULL, "login", NULL)

\* POST /oauth/par from client c1.
fresh_pushedAuthorizationRequest(c) ==
  /\ MayCreate(MaxAuthzRequests)
  /\ pushedAuthorizationRequest(
       c, {CredentialsNone("c1")},
       {PageParameters, HintParameters, LoginParameters}, {NULL})

NextFresh ==
  \E c \in CallIds :
    \/ fresh_pushedAuthorizationRequest(c)
    \/ pushedAuthorizationRequest_createAuthorizationRequest(c)
    \/ authorize(c, {"c1"}, RequestUriQueries, {"d1"})
    \/ authorize_getSessions(c)
    \/ authorize_setAuthorized(c)
    \/ authorize_deleteRequest(c)
    \/ acceptRequest(c, IssuedUris, {"d1"}, {"alice"})
    \/ acceptRequest_accountManager_get(c)
    \/ acceptRequest_setAuthorized(c)
    \/ acceptRequest_addAuthorizedClient(c)
    \/ acceptRequest_deleteRequest(c)
    \/ Respond(c)
    \/ Tick

SpecFresh == InitFresh /\ [][NextFresh]_vars

\* The step in which an authorize call reads the sessions of its device and
\* decides on them.
ReadsSessions(c) ==
  At(c, "authorize", "getSessions") /\ calls'[c] # calls[c]

\* The sessions that step reads.
SessionsRead(c) ==
  getSessions(calls[c].args.client_id, calls[c].args.deviceId,
              calls[c].parameters)

\* The age of the session of an account on a device.
AuthAge(deviceId, sub) == now - accountStore[<< deviceId, sub >>].authenticatedAt

\* The authorize call of frame c has returned the authorization page.
ReturnsPage(c) ==
  /\ calls'[c].pc = "done"
  /\ calls'[c].error.error = NULL
  /\ "authorize" \in DOMAIN calls'[c].value

\* C15 at GET /authorize: a session as old as authenticationMaxAge is
\* reported with loginRequired, and is not approved automatically.
C15_Authorize(c) ==
  ReadsSessions(c) =>
    \A sub \in DOMAIN SessionsRead(c) :
      AuthAge(calls[c].args.deviceId, sub) >= AUTHENTICATION_MAX_AGE =>
        /\ SessionsRead(c)[sub].loginRequired
        /\ ReturnsPage(c) => calls'[c].value.authorize.sessions[sub].loginRequired
        /\ ~(calls'[c].pc = "setAuthorized" /\ calls'[c].sub = sub)

\* C15 at acceptRequest: for such a session the call goes to its catch
\* block with login_required, and ends with it, without a code.
C15_Accept(c) ==
  /\ (/\ At(c, "accept", "accountManager_get")
      /\ calls'[c] # calls[c]
      /\ << calls[c].args.deviceId, calls[c].args.sub >> \in DOMAIN accountStore
      /\ AuthAge(calls[c].args.deviceId, calls[c].args.sub)
           >= AUTHENTICATION_MAX_AGE)
       => /\ calls'[c].pc = "deleteRequest"
          /\ calls'[c].err = LoginRequiredError(calls[c].parameters)
  /\ (At(c, "accept", "deleteRequest") /\ calls'[c] # calls[c])
       => /\ calls'[c].pc = "done"
          /\ calls'[c].error.error = calls[c].err.error
          /\ UNCHANGED << nextCode, log >>

\* C15: a device session whose age has reached authenticationMaxAge is
\* reported by getSessions with loginRequired = true, GET /authorize never
\* approves the request for it automatically, and acceptRequest for its
\* account fails with login_required and issues no code.
C15_StaleNeedsLogin ==
  [][\A c \in CallIds : C15_Authorize(c) /\ C15_Accept(c)]_vars

\* An acceptRequest for a session of age authenticationMaxAge has failed
\* with login_required, its request is deleted and has no code.
C15_Witness ==
  \E c \in CallIds :
    /\ Done(c, "accept")
    /\ calls[c].error.error = "login_required"
    /\ AuthAge(calls[c].args.deviceId, calls[c].args.sub) = AUTHENTICATION_MAX_AGE
    /\ calls[c].args.requestUri \notin DOMAIN requestStore
    /\ CodesFor(calls[c].args.requestUri) = {}

\* C16 (as stated): for a request without prompt=login, the session GET
\* /authorize reads is reported with loginRequired = false exactly when
\* now - authenticatedAt < authenticationMaxAge.
C16_FreshIffYounger ==
  [][\A c \in CallIds :
       ReadsSessions(c) =>
         \A sub \in DOMAIN SessionsRead(c) :
           calls[c].parameters.prompt # "login" =>
             (~SessionsRead(c)[sub].loginRequired
                <=> AuthAge(calls[c].args.deviceId, sub) < AUTHENTICATION_MAX_AGE)]_vars

\* C16 (amended): for a request without prompt=login, a session is
\* reported with loginRequired = false exactly when
\* 0 <= now - authenticatedAt < authenticationMaxAge; every other session,
\* one dated ahead of the clock included, and every session of a request
\* with prompt=login is reported with loginRequired = true; the page
\* returned carries the sessions as reported.
C16_FreshIffInWindow ==
  [][\A c \in CallIds :
       ReadsSessions(c) =>
         /\ \A sub \in DOMAIN SessionsRead(c) :
              LET age == AuthAge(calls[c].args.deviceId, sub) IN
              IF calls[c].parameters.prompt = "login"
              THEN SessionsRead(c)[sub].loginRequired
              ELSE ~SessionsRead(c)[sub].loginRequired
                     <=> (0 <= age /\ age < AUTHENTICATION_MAX_AGE)
         /\ ReturnsPage(c)
              => calls'[c].value.authorize.sessions = SessionsRead(c)]_vars

\* GET /authorize has returned the page of a request without prompt=login,
\* with a session dated ahead of the clock reported as needing a login.
C16_Witness ==
  \E c \in CallIds :
    /\ Succeeded(c, "authorize")
    /\ "authorize" \in DOMAIN calls[c].value
    /\ \E uri \in DOMAIN requestStore :
         /\ uri = calls[c].value.authorize.uri
         /\ requestStore[uri].parameters.prompt = NULL
    /\ AuthAge("d1", "alice") < 0
    /\ calls[c].value.authorize.sessions["alice"].loginRequired

\* ------------------------------------------------------------ the consent

\* alice is signed in on device d1 and has authorized no client there.
InitConsent ==
  InitWith(Put(<< >>, << "d1", "alice" >>, Session(0, {})))

\* POST /oauth/par from a third-party client or from a first-party client,
\* for the authorization page.
consent_pushedAuthorizationRequest(c) ==
  /\ MayCreate(MaxAuthzRequests)
  /\ pushedAuthorizationRequest(
       c, {CredentialsNone("c1"), CredentialsNone("f1")},
       {PageParameters, Parameters("h1", "S256", NULL, "consent", NULL)},
       {NULL})

NextConsent ==
  \E c \in CallIds :
    \/ consent_pushedAuthorizationRequest(c)
    \/ pushedAuthorizationRequest_createAuthorizationRequest(c)
    \/ authorize(c, {"c1", "f1"}, RequestUriQueries, {"d1"})
    \/ authorize_getSessions(c)
    \/ signIn(c, IssuedUris, {"d1"}, SignInData)
    \/ signIn_accountManager_signIn(c)
    \/ signUp(c, IssuedUris, {"d1"}, SignUpData)
    \/ signUp_accountManager_signUp(c)
    \/ acceptRequest(c, IssuedUris, {"d1"}, {"alice", "bob"})
    \/ acceptRequest_accountManager_get(c)
    \/ acceptRequest_setAuthorized(c)
    \/ acceptRequest_addAuthorizedClient(c)
    \/ acceptRequest_deleteRequest(c)
    \/ Respond(c)

SpecConsent == InitConsent /\ [][NextConsent]_vars

\* The client may skip the consent of this device-account pair, in this
\* account store.
ConsentGiven(client_id, store, deviceId, sub) ==
  \/ ClientMetadata(client_id).isFirstParty
  \/ /\ << deviceId, sub >> \in DOMAIN store
     /\ client_id \in store[<< deviceId, sub >>].authorizedClients

\* The step in which a signIn or signUp call returns its result.
SignsIn(c) ==
  /\ calls[c].op \in {"signIn", "signUp"}
  /\ calls[c].pc # "done"
  /\ calls'[c].pc = "done"
  /\ calls'[c].error.error = NULL

\* C17: consentRequired is false only if the client is first-party or its
\* id is in authorizedClients of the device-account pair: in the sessions
\* GET /authorize reads and returns with the page, in the result of signIn
\* and in the result of signUp.
C17_ConsentSkippedOnlyIfGiven ==
  [][\A c \in CallIds :
       /\ ReadsSessions(c) =>
            /\ \A sub \in DOMAIN SessionsRead(c) :
                 ~SessionsRead(c)[sub].consentRequired
                   => ConsentGiven(calls[c].args.client_id, accountStore,
                                   calls[c].args.deviceId, sub)
            /\ ReturnsPage(c)
                 => calls'[c].value.authorize.sessions = SessionsRead(c)
       /\ SignsIn(c) =>
            (~calls'[c].value.consentRequired
               => ConsentGiven(calls[c].clientId, accountStore',
                               calls[c].args.deviceId, calls[c].args.data.sub))]_vars

\* GET /authorize has returned the page of a third-party client with a
\* session that needs no consent, the account having accepted the client
\* before; and a sign-in for a first-party client needs no consent.
C17_Witness ==
  \E c, d \in CallIds :
    /\ Succeeded(c, "authorize")
    /\ "authorize" \in DOMAIN calls[c].value
    /\ calls[c].args.client_id = "c1"
    /\ ~calls[c].value.authorize.sessions["alice"].consentRequired
    /\ "c1" \in accountStore[<< "d1", "alice" >>].authorizedClients
    /\ Succeeded(d, "signIn")
    /\ ~calls[d].value.consentRequired

\* ------------------------------------------- GET /oauth/authorize, routed

\* A catcher that rethrows every error.
accessDeniedToRedirectCatcher_rethrow(err) ==
  [caught |-> FALSE, parameters |-> NULL, redirect |-> NULL]

\* accessDeniedToRedirectCatcher(req, res, err): an AccessDeniedError whose
\* parameters hold a redirect_uri becomes the result of a redirect, made of
\* the parameters of the error and of err.toJSON(); any other error is
\* thrown again.
accessDeniedToRedirectCatcher(err) ==
  IF err.accessDenied /\ err.redirect_uri # NULL
  THEN [caught |-> TRUE,
        parameters |-> [redirect_uri |-> err.redirect_uri, state |-> err.state],
        redirect |-> [error |-> err.error]]
  ELSE [caught |-> FALSE, parameters |-> NULL, redirect |-> NULL]

\* sendAuthorizeRedirect: a 302 to the redirect_uri of the parameters, with
\* the state of the parameters and the code or the error of the redirect.
sendAuthorizeRedirect(parameters, redirect) ==
  [ status |-> 302, body |-> "redirect", location |-> parameters.redirect_uri,
    state |-> parameters.state,
    code |-> IF "code" \in DOMAIN redirect THEN redirect.code ELSE NULL,
    error |-> IF "error" \in DOMAIN redirect THEN redirect.error ELSE NULL ]

\* sendAuthorizePage and sendErrorPage: a page, and no redirect.
sendAuthorizePage ==
  [ status |-> 200, body |-> "authorize", location |-> NULL, state |-> NULL,
    code |-> NULL, error |-> NULL ]
sendErrorPage(err) ==
  [ status |-> 400, body |-> "error", location |-> NULL, state |-> NULL,
    code |-> NULL, error |-> err.error ]

\* The response of the GET /oauth/authorize route to a call of authorize
\* that ended in frame f: the result of authorize, or of the catcher, is a
\* redirect or the authorization page; an error the catcher throws again
\* reaches the navigation handler, which sends the error page.
authorizeRoute(f) ==
  IF f.error.error # NULL
  THEN LET r == accessDeniedToRedirectCatcher(f.error)
       IN  IF r.caught
           THEN sendAuthorizeRedirect(r.parameters, r.redirect)
           ELSE sendErrorPage(f.error)
  ELSE IF "redirect" \in DOMAIN f.value
  THEN sendAuthorizeRedirect(f.value.parameters, f.value.redirect)
  ELSE sendAuthorizePage

\* ------------------------------------------------ prompt at GET /authorize

\* The devices of the prompt specification: d1 holds a session of alice, d2
\* sessions of alice and of bob, d3 holds none. Every account has accepted
\* client c1, and no account the first-party client f1.
PromptDevices == {"d1", "d2", "d3"}
InitPrompt ==
  InitWith(Put(Put(Put(<< >>, << "d1", "alice" >>, Session(0, {"c1"})),
                   << "d2", "alice" >>, Session(0, {"c1"})),
               << "d2", "bob" >>, Session(0, {"c1"})))

\* The queries of GET /authorize: parameters sent in the query itself, with
\* or without prompt=none, and with or without a login_hint.
PromptQueries ==
  { Parameters("h1", "S256", NULL, prompt, hint) :
      prompt \in {"none", NULL}, hint \in {NULL, "alice", "bob"} }

NextPrompt ==
  \/ \E c \in CallIds :
       \/ authorize(c, {"c1", "f1"}, PromptQueries, PromptDevices)
       \/ authorize_getSessions(c)
       \/ authorize_setAuthorized(c)
       \/ authorize_deleteRequest(c)
       \/ Respond(c)
  \/ Tick

SpecPrompt == InitPrompt /\ [][NextPrompt]_vars

\* The call of frame c goes to the catch block of authorize with this
\* error code.
CatchesWith(c, code) ==
  /\ calls'[c].pc = "deleteRequest"
  /\ calls'[c].err.error = code

\* C18: for a first-party client whose request has no prompt=consent, no
\* session read at GET /authorize is reported with consentRequired, and a
\* prompt=none request never fails with consent_required.
C18_FirstPartySkipsConsent ==
  [][\A c \in CallIds :
       ( /\ ReadsSessions(c)
         /\ ClientMetadata(calls[c].args.client_id).isFirstParty
         /\ calls[c].parameters.prompt # "consent" )
       => /\ \A sub \in DOMAIN SessionsRead(c) :
               ~SessionsRead(c)[sub].consentRequired
          /\ ~CatchesWith(c, "consent_required")]_vars

\* The accounts of the sessions read by frame c that match the login_hint
\* of its request: every one when there is no hint, else those whose sub or
\* preferred_username is the hint.
Matching(c) ==
  LET hint == calls[c].parameters.login_hint
  IN  {sub \in DOMAIN SessionsRead(c) :
         \/ hint = NULL
         \/ sub = hint
         \/ Account(sub).preferred_username = hint}

\* The single matching session read by frame c needs login / needs consent.
SingleNeedsLogin(c) ==
  \E sub \in Matching(c) : Matching(c) = {sub} /\ SessionsRead(c)[sub].loginRequired
SingleNeedsConsent(c) ==
  \E sub \in Matching(c) : Matching(c) = {sub} /\ SessionsRead(c)[sub].consentRequired

\* The step in which a prompt=none call of authorize ends.
EndsSilent(c) ==
  /\ calls[c].op = "authorize"
  /\ calls[c].pc \in {"getSessions", "setAuthorized", "deleteRequest"}
  /\ calls[c].parameters.prompt = "none"
  /\ calls'[c].pc = "done"

\* C19 at the decision: on the sessions it reads, a prompt=none call of
\* authorize never returns the page; it goes on to approve the request
\* exactly when a single session matches and needs neither login nor
\* consent, and otherwise fails with the error of the case.
C19_Decision(c) ==
  (ReadsSessions(c) /\ calls[c].parameters.prompt = "none") =>
    /\ ~ReturnsPage(c)
    /\ calls'[c].pc \in {"setAuthorized", "deleteRequest"}
    /\ calls'[c].pc = "setAuthorized" <=>
         /\ Cardinality(Matching(c)) = 1
         /\ ~SingleNeedsLogin(c)
         /\ ~SingleNeedsConsent(c)
    /\ calls'[c].pc = "setAuthorized" => Matching(c) = {calls'[c].sub}
    /\ Cardinality(Matching(c)) > 1
         => CatchesWith(c, "account_selection_required")
    /\ (Matching(c) = {} \/ SingleNeedsLogin(c))
         => CatchesWith(c, "login_required")
    /\ (SingleNeedsConsent(c) /\ ~SingleNeedsLogin(c))
         => CatchesWith(c, "consent_required")

\* C19 at the end of the call: the approval returns a redirect with a code,
\* the catch block fails with the error it caught, and the response of the
\* route is a redirect either way.
C19_Outcome(c) ==
  EndsSilent(c) =>
    /\ authorizeRoute(calls'[c]).body = "redirect"
    /\ calls[c].pc = "setAuthorized"
         => /\ calls'[c].error.error = NULL
            /\ calls'[c].value.redirect.code = nextCode
            /\ authorizeRoute(calls'[c]).code = nextCode
    /\ calls[c].pc = "deleteRequest"
         => /\ calls'[c].error.error = calls[c].err.error
            /\ authorizeRoute(calls'[c]).error = calls[c].err.error
            /\ authorizeRoute(calls'[c]).code = NULL
            /\ nextCode' = nextCode

\* C19: with prompt=none, GET /authorize never returns the authorization
\* page: it returns a redirect with a code exactly when one single device
\* session matches the login_hint and needs neither login nor consent;
\* otherwise it fails with account_selection_required when several sessions
\* match, login_required when none matches or the single match needs login
\* (even if it also needs consent), and consent_required when the single
\* match needs only consent.
C19_SilentOutcomes ==
  [][\A c \in CallIds : C19_Decision(c) /\ C19_Outcome(c)]_vars

\* Every outcome has happened: a prompt=none call has returned a code, and
\* prompt=none calls have failed with each of the three errors, the
\* login_required one on a session that also needed consent.
C19_Witness ==
  /\ \E c \in CallIds :
       /\ Succeeded(c, "authorize")
       /\ calls[c].args.query.prompt = "none"
       /\ "redirect" \in DOMAIN calls[c].value
  /\ \E c \in CallIds :
       /\ Failed(c, "authorize")
       /\ calls[c].args.query.prompt = "none"
       /\ calls[c].error.error = "login_required"
       /\ calls[c].args.client_id = "f1"
       /\ calls[c].args.deviceId = "d1"
       /\ calls[c].args.query.login_hint = "alice"
       /\ now >= AUTHENTICATION_MAX_AGE

\* The step in which a prompt=none call of authorize that caught
\* login_required leaves its catch block.
EndsLoginRequired(c) ==
  /\ At(c, "authorize", "deleteRequest")
  /\ calls[c].parameters.prompt = "none"
  /\ calls[c].err.error = "login_required"
  /\ calls'[c].pc = "done"

\* C20: GET /authorize with prompt=none and no matching device session
\* answers with a redirect to the redirect_uri of the request that carries
\* error=login_required, not rewritten to access_denied, and the state of
\* the request; no error page is rendered and no code is issued.
C20_LoginRequiredRedirect ==
  [][\A c \in CallIds :
       /\ ( /\ ReadsSessions(c)
            /\ calls[c].parameters.prompt = "none"
            /\ Matching(c) = {} )
          => /\ CatchesWith(c, "login_required")
             /\ calls'[c].err = LoginRequiredError(calls[c].parameters)
       /\ EndsLoginRequired(c)
          => LET r == authorizeRoute(calls'[c])
             IN  /\ r.status = 302
                 /\ r.body = "redirect"
                 /\ r.location = calls[c].parameters.redirect_uri
                 /\ r.error = "login_required"
                 /\ r.state = calls[c].parameters.state
                 /\ r.code = NULL
                 /\ nextCode' = nextCode
                 /\ log' = log]_vars

\* A prompt=none request from the device without sessions, and one with a
\* login_hint no session of the device matches, have been answered with the
\* redirect.
C20_Witness ==
  \E c, d \in CallIds :
    /\ Failed(c, "authorize")
    /\ calls[c].args.query.prompt = "none"
    /\ calls[c].args.deviceId = "d3"
    /\ Failed(d, "authorize")
    /\ calls[d].args.query.prompt = "none"
    /\ calls[d].args.deviceId = "d1"
    /\ calls[d].args.query.login_hint = "bob"
    /\ \A e \in {c, d} :
         /\ authorizeRoute(calls[e]).body = "redirect"
         /\ authorizeRoute(calls[e]).location = "cb"
         /\ authorizeRoute(calls[e]).error = "login_required"
         /\ authorizeRoute(calls[e]).state = "s1"
    /\ nextCode = 1

\* ----------------------------------------------------------- prompt=login

\* The time at which the authorization request of this uri was created.
CreatedAt(uri) == (CHOOSE e \in log : e.kind = "request" /\ e.uri = uri).at

\* The codes issued by a step.
CodesIssued == {e \in log' \ log : e.kind = "code"}

\* C21: prompt=login forces reauthentication: for an authorization request
\* with prompt=login, no code is ever issued, by GET /authorize or by
\* acceptRequest, for an account whose latest authentication on the device
\* is older than the creation of the request.
C21_LoginForcesReauthentication ==
  [][\A e \in CodesIssued :
       requestStore'[e.uri].parameters.prompt = "login"
         => accountStore[<< e.deviceId, e.sub >>].authenticatedAt
              >= CreatedAt(e.uri)]_vars

\* -------------------------------------- interactive prompts at /authorize

\* The queries of GET /authorize that may lead to the authorization page:
\* prompt=consent, prompt=select_account or no prompt, without a login_hint
\* or with the sub or the preferred_username of an account.
InteractQueries ==
  { Parameters("h1", "S256", NULL, prompt, hint) :
      prompt \in {"consent", "select_account", NULL},
      hint \in {NULL, "alice", "bob.test"} }

NextInteract ==
  \/ \E c \in CallIds :
       \/ authorize(c, {"c1", "f1"}, InteractQueries, {"d1", "d2"})
       \/ authorize_getSessions(c)
       \/ authorize_setAuthorized(c)
       \/ authorize_deleteRequest(c)
       \/ Respond(c)
  \/ Tick

SpecInteract == InitPrompt /\ [][NextInteract]_vars

\* C22: with prompt=consent, every session is reported with consentRequired
\* = true and GET /authorize never issues a code by itself, also for
\* clients already in authorizedClients and for first-party clients: it
\* returns the page, so that a code can only result from acceptRequest.
C22_ConsentPromptAsks ==
  [][/\ \A c \in CallIds :
          (ReadsSessions(c) /\ calls[c].parameters.prompt = "consent") =>
            /\ \A sub \in DOMAIN SessionsRead(c) :
                 SessionsRead(c)[sub].consentRequired
            /\ ReturnsPage(c)
            /\ calls'[c].value.authorize.sessions = SessionsRead(c)
            /\ log' = log
      /\ \A e \in CodesIssued :
           e.via = "authorize"
             => requestStore'[e.uri].parameters.prompt # "consent"]_vars

\* GET /authorize with prompt=consent has returned the page to a client the
\* account had accepted, and to the first-party client.
C22_Witness ==
  \E c, d \in CallIds :
    /\ Succeeded(c, "authorize")
    /\ calls[c].args.query.prompt = "consent"
    /\ calls[c].args.client_id = "c1"
    /\ calls[c].args.deviceId = "d1"
    /\ "c1" \in accountStore[<< "d1", "alice" >>].authorizedClients
    /\ calls[c].value.authorize.sessions["alice"].consentRequired
    /\ Succeeded(d, "authorize")
    /\ calls[d].args.query.prompt = "consent"
    /\ calls[d].args.client_id = "f1"
    /\ "authorize" \in DOMAIN calls[d].value

\* C23: with prompt=select_account, no session is reported with selected =
\* true and GET /authorize never issues a code automatically, even when
\* exactly one session matches the login_hint and needs neither login nor
\* consent: it returns the page.
C23_SelectAccountAsks ==
  [][/\ \A c \in CallIds :
          (ReadsSessions(c) /\ calls[c].parameters.prompt = "select_account") =>
            /\ \A sub \in DOMAIN SessionsRead(c) :
                 ~SessionsRead(c)[sub].selected
            /\ ReturnsPage(c)
            /\ calls'[c].value.authorize.sessions = SessionsRead(c)
            /\ log' = log
      /\ \A e \in CodesIssued :
           e.via = "authorize"
             => requestStore'[e.uri].parameters.prompt # "select_account"]_vars

\* GET /authorize with prompt=select_account and the hint of the single
\* session of the device, which needs neither login nor consent, has
\* returned the page.
C23_Witness ==
  \E c \in CallIds :
    /\ Succeeded(c, "authorize")
    /\ calls[c].args.query.prompt = "select_account"
    /\ calls[c].args.query.login_hint = "alice"
    /\ calls[c].args.deviceId = "d1"
    /\ "authorize" \in DOMAIN calls[c].value
    /\ DOMAIN calls[c].value.authorize.sessions = {"alice"}
    /\ LET session == calls[c].value.authorize.sessions["alice"]
       IN  /\ session.matchesHint
           /\ ~session.loginRequired
           /\ ~session.consentRequired
           /\ ~session.selected

\* The accounts of the sessions read by frame c that the login_hint of its
\* request names, by sub or by preferred_username.
Hinted(c) ==
  {sub \in DOMAIN SessionsRead(c) :
     \/ sub = calls[c].parameters.login_hint
     \/ Account(sub).preferred_username = calls[c].parameters.login_hint}

\* The request of frame c has a login_hint that one single session matches,
\* and that session needs neither login nor consent.
SingleSignOn(c) ==
  /\ calls[c].parameters.login_hint # NULL
  /\ \E sub \in Hinted(c) :
       /\ Hinted(c) = {sub}
       /\ ~SessionsRead(c)[sub].loginRequired
       /\ ~SessionsRead(c)[sub].consentRequired

\* C24: with no prompt parameter, GET /authorize issues a code without user
\* interaction exactly when the request has a login_hint, one single device
\* session matches it (by sub or preferred_username) and that session
\* requires neither login nor consent; in every other case without prompt
\* it returns the authorization page and issues no code.
C24_HintSignsOn ==
  [][\A c \in CallIds :
       /\ (ReadsSessions(c) /\ calls[c].parameters.prompt = NULL) =>
            IF SingleSignOn(c)
            THEN /\ calls'[c].pc = "setAuthorized"
                 /\ Hinted(c) = {calls'[c].sub}
            ELSE /\ ReturnsPage(c)
                 /\ log' = log
       /\ ( /\ At(c, "authorize", "setAuthorized")
            /\ calls[c].parameters.prompt = NULL
            /\ calls'[c].pc = "done" )
          => /\ calls'[c].error.error = NULL
             /\ calls'[c].value.redirect.code = nextCode
             /\ \E e \in CodesIssued :
                  e.code = nextCode /\ e.uri = calls[c].uri
                    /\ e.sub = calls[c].sub]_vars

\* Without prompt, a request with the preferred_username of one of the two
\* accounts of a device got a code, and a request without hint on the
\* device of a single session got the page.
C24_Witness ==
  \E c, d \in CallIds :
    /\ Succeeded(c, "authorize")
    /\ calls[c].args.query.prompt = NULL
    /\ calls[c].args.query.login_hint = "bob.test"
    /\ calls[c].args.deviceId = "d2"
    /\ "redirect" \in DOMAIN calls[c].value
    /\ Succeeded(d, "authorize")
    /\ calls[d].args.query.prompt = NULL
    /\ calls[d].args.query.login_hint = NULL
    /\ calls[d].args.deviceId = "d1"
    /\ calls[d].args.client_id = "c1"
    /\ "authorize" \in DOMAIN calls[d].value
    /\ ~calls[d].value.authorize.sessions["alice"].loginRequired

\* ------------------------------------------- error redirects of /authorize

\* A client id that the client manager cannot resolve.
UnknownClientIds == {"x1"}

\* GET /authorize with the parameters in the query, or with a request_uri
\* this server issued, from a known client or under an unknown client id.
NextRedirect ==
  \E c \in CallIds :
    \/ authorize(c, {"c1"} \cup UnknownClientIds,
                 PromptQueries \cup RequestUriQueries, {"d1"})
    \/ authorize_getSessions(c)
    \/ authorize_setAuthorized(c)
    \/ authorize_deleteRequest(c)
    \/ Respond(c)

SpecRedirect == InitPrompt /\ [][NextRedirect]_vars

\* The step in which a call of authorize ends with an error that the route
\* answers with a redirect.
EndsWithErrorRedirect(c) ==
  /\ calls[c].pc # "done"
  /\ calls'[c].op = "authorize"
  /\ calls'[c].pc = "done"
  /\ calls'[c].error.error # NULL
  /\ authorizeRoute(calls'[c]).body = "redirect"

\* C25: GET /authorize answers an error with a redirect to a redirect_uri
\* only if that redirect_uri was validated for the client, that is, for an
\* error caught after the client was resolved and the request was created
\* or loaded: an error raised before never causes a redirect to a
\* redirect_uri taken from the query string.
C25_RedirectOnlyIfValidated ==
  [][\A c \in CallIds :
       EndsWithErrorRedirect(c) =>
         /\ ClientManager_getClient(calls'[c].args.client_id).error = NULL
         /\ At(c, "authorize", "deleteRequest")
         /\ authorizeRoute(calls'[c]).location
              = calls[c].parameters.redirect_uri]_vars

\* ------------------------------------------------------- errors of PAR

\* The step in which a call of pushedAuthorizationRequest fails.
ParFails(c) ==
  /\ calls[c].pc # "done"
  /\ calls'[c].op = "par"
  /\ calls'[c].pc = "done"
  /\ calls'[c].error.error # NULL

\* The error raised inside the try block of pushedAuthorizationRequest in
\* that step: by authenticateClient, by decodeJAR or by
\* requestManager.createAuthorizationRequest.
ParRaised(c) ==
  LET a == calls'[c].args IN
  IF calls[c].op = "idle" THEN authenticateClient(a.credentials).error
  ELSE IF calls[c].pc = "decodeJAR"
  THEN decodeJAR(a.credentials.client_id, a.authorizationRequest.request).error
  ELSE RequestManager_createAuthorizationRequest(
         a.credentials.client_id, calls[c].clientAuth, calls[c].parameters,
         NULL, a.dpopJkt).error

UserInteractionErrors ==
  {"access_denied", "login_required", "consent_required",
   "account_selection_required"}

\* C26: the pushed-authorization-request operation never fails with a
\* user-interaction error: every AccessDeniedError raised inside it is
\* reported as invalid_request with the same description, and every other
\* error propagates unchanged.
C26_ParDowngrades ==
  [][\A c \in CallIds :
       ParFails(c) =>
         /\ ~calls'[c].error.accessDenied
         /\ calls'[c].error.error \notin UserInteractionErrors
         /\ IF ParRaised(c).accessDenied
            THEN /\ calls'[c].error.error = "invalid_request"
                 /\ calls'[c].error.error_description
                      = ParRaised(c).error_description
                 /\ calls'[c].error.redirect_uri = NULL
            ELSE calls'[c].error = ParRaised(c)]_vars

\* A pushed request whose request object was refused with an
\* InvalidParametersError has failed with invalid_request and the
\* description of that error, and another one has failed with the
\* invalid_grant of a replayed client assertion.
C26_Witness ==
  \E c, d \in CallIds :
    /\ Failed(c, "par")
    /\ "request" \in DOMAIN calls[c].args.authorizationRequest
    /\ calls[c].error.error = "invalid_request"
    /\ calls[c].error.error_description = "invalid_parameters"
    /\ ~calls[c].error.accessDenied
    /\ Failed(d, "par")
    /\ calls[d].error = InvalidGrantError

\* ------------------------------------------------- grant types at /token

\* alice is signed in on device d1 and has accepted clients c1 and g1.
InitGrant ==
  InitWith(Put(<< >>, << "d1", "alice" >>, Session(0, {"c1", "g1"})))

\* A token request of the password grant, which the server does not support.
PasswordGrantRequest == [grant_type |-> "password", username |-> "alice"]

\* The token requests: a code or a refresh token this server issued, or a
\* password.
GrantRequests == RefreshRequests \cup {PasswordGrantRequest}

\* POST /oauth/par from client c1 or from client g1.
grant_pushedAuthorizationRequest(c) ==
  /\ MayCreate(MaxAuthzRequests)
  /\ pushedAuthorizationRequest(
       c, {CredentialsNone("c1"), CredentialsNone("g1")}, {HintParameters},
       {NULL})

NextGrant ==
  \E c \in CallIds :
    \/ grant_pushedAuthorizationRequest(c)
    \/ pushedAuthorizationRequest_createAuthorizationRequest(c)
    \/ authorize(c, {"c1", "g1"}, RequestUriQueries, {"d1"})
    \/ authorize_getSessions(c)
    \/ authorize_setAuthorized(c)
    \/ authorize_deleteRequest(c)
    \/ token(c, {CredentialsNone("c1"), CredentialsNone("g1")}, GrantRequests,
             {NULL})
    \/ codeGrant_findCode(c)
    \/ codeGrant_uniqueCodeChallenge(c)
    \/ codeGrant_accountManager_get(c)
    \/ codeGrant_create(c)
    \/ codeGrant_revoke(c)
    \/ refreshTokenGrant_find(c)
    \/ refreshTokenGrant_rotate(c)
    \/ refreshTokenGrant_revoke(c)
    \/ Respond(c)

SpecGrant == InitGrant /\ [][NextGrant]_vars

\* The step in which POST /oauth/token is received in frame c, from a client
\* that authenticates.
TokenArrives(c) ==
  /\ calls[c].op = "idle"
  /\ calls'[c].op = "token"
  /\ authenticateClient(calls'[c].args.credentials).error.error = NULL

\* The grant type of that request is listed by the server and by the client.
GrantAllowed(c) ==
  LET a == calls'[c].args IN
  /\ a.request.grant_type \in grant_types_supported
  /\ a.request.grant_type \in ClientMetadata(a.credentials.client_id).grant_types

\* C27: the token endpoint processes a grant only when its grant_type is
\* listed both in the server's grant_types_supported and in the client's
\* grant_types; otherwise the request fails with invalid_grant before the
\* code or refresh token is looked up, so no code is consumed and no token
\* is issued, rotated or revoked.
C27_GrantTypeAllowListed ==
  [][\A c \in CallIds :
       TokenArrives(c) =>
         IF GrantAllowed(c)
         THEN calls'[c].pc \in {"findCode", "refresh"}
         ELSE /\ calls'[c].pc = "done"
              /\ calls'[c].error = InvalidGrantError
              /\ UNCHANGED << requestStore, nextCode, tokenStore, nextToken,
                              log >>]_vars

\* Client g1 holds a token, and its refresh_token request for that token has
\* failed with invalid_grant, the token being still in the store; a password
\* request has failed as well.
C27_Witness ==
  \E c, d \in CallIds :
    /\ Failed(c, "token")
    /\ calls[c].args.credentials.client_id = "g1"
    /\ calls[c].args.request.grant_type = "refresh_token"
    /\ calls[c].args.request.refresh_token \in DOMAIN tokenStore
    /\ tokenStore[calls[c].args.request.refresh_token].clientId = "g1"
    /\ calls[c].error = InvalidGrantError
    /\ Failed(d, "token")
    /\ calls[d].args.request.grant_type = "password"
    /\ calls[d].error = InvalidGrantError

\* ------------------------------------------------- POST /oauth/token, routed

\* The body of a POST /oauth/token request, as parseHttpRequest returns it:
\* the fields the two schemas read, NULL (NoId for a code or a token) for a
\* field that is absent.
TokenPayload(client_id, grant_type, code, code_verifier, refresh_token) ==
  [ client_id |-> client_id, grant_type |-> grant_type, code |-> code,
    code_verifier |-> code_verifier, refresh_token |-> refresh_token ]

\* oauthClientCredentialsSchema.parseAsync(payload): the credentials of the
\* none method, which need a client_id.
oauthClientCredentialsSchema(payload) ==
  IF payload.client_id = NULL
  THEN [ok |-> FALSE, value |-> NoValue]
  ELSE [ok |-> TRUE, value |-> CredentialsNone(payload.client_id)]

\* oauthTokenRequestSchema.parseAsync(payload): a grant_type together with
\* the fields of that grant.
oauthTokenRequestSchema(payload) ==
  IF /\ payload.grant_type = "authorization_code"
     /\ payload.code # NoId
     /\ payload.code_verifier # NULL
  THEN [ok |-> TRUE,
        value |-> CodeGrantRequest(payload.code, payload.code_verifier)]
  ELSE IF payload.grant_type = "refresh_token" /\ payload.refresh_token # NoId
  THEN [ok |-> TRUE, value |-> RefreshGrantRequest(payload.refresh_token)]
  ELSE [ok |-> FALSE, value |-> NoValue]

\* A handler of schema errors that throws InvalidRequestError.
throwInvalidClient_asRequest ==
  [InvalidRequestError EXCEPT !.error_description = "Validation failed"]

\* throwInvalidGrant, throwInvalidClient, throwInvalidRequest: the error
\* each one throws for a schema error, with the message of the schema error.
throwInvalidGrant ==
  [InvalidGrantError EXCEPT !.error_description = "Validation failed"]
throwInvalidClient ==
  [InvalidClientError EXCEPT !.error_description = "Validation failed"]
throwInvalidRequest ==
  [InvalidRequestError EXCEPT !.error_description = "Validation failed"]

\* The handler of POST /oauth/token: the credentials and the token request
\* are parsed from the body, then server.token is called.
tokenRoute(c, Payloads) ==
  \E payload \in Payloads :
    LET credentials == oauthClientCredentialsSchema(payload)
        request == oauthTokenRequestSchema(payload)
        a == [payload |-> payload]
    IN  IF ~credentials.ok
        THEN /\ Free(c)
             /\ ThrowAs(c, "token", a, throwInvalidClient)
             /\ UNCHANGED << now, stores, log >>
        ELSE IF ~request.ok
        THEN /\ Free(c)
             /\ ThrowAs(c, "token", a, throwInvalidGrant)
             /\ UNCHANGED << now, stores, log >>
        ELSE token(c, {credentials.value}, {request.value}, {NULL})

\* The bodies sent to POST /oauth/token: with or without a client_id, with a
\* grant type or not, with or without the code, the code_verifier or the
\* refresh token of the grant.
TokenPayloads ==
  { TokenPayload(client_id, grant_type, code, code_verifier, refresh_token) :
      client_id \in {"c1", NULL},
      grant_type \in {"authorization_code", "refresh_token", NULL},
      code \in IssuedCodes \cup {NoId},
      code_verifier \in {"v1", NULL},
      refresh_token \in IssuedTokens \cup {NoId} }

NextTokenRoute ==
  \E c \in CallIds :
    \/ hint_pushedAuthorizationRequest(c)
    \/ pushedAuthorizationRequest_createAuthorizationRequest(c)
    \/ authorize(c, {"c1"}, RequestUriQueries, {"d1"})
    \/ authorize_getSessions(c)
    \/ authorize_setAuthorized(c)
    \/ authorize_deleteRequest(c)
    \/ tokenRoute(c, TokenPayloads)
    \/ codeGrant_findCode(c)
    \/ codeGrant_uniqueCodeChallenge(c)
    \/ codeGrant_accountManager_get(c)
    \/ codeGrant_create(c)
    \/ codeGrant_revoke(c)
    \/ refreshTokenGrant_find(c)
    \/ refreshTokenGrant_rotate(c)
    \/ refreshTokenGrant_revoke(c)
    \/ Respond(c)

SpecTokenRoute == InitAuthz /\ [][NextTokenRoute]_vars

\* The step in which POST /oauth/token is answered with a schema error: the
\* call ends before server.token is entered.
SchemaError(c) ==
  /\ calls[c].op = "idle"
  /\ calls'[c].op = "token"
  /\ "payload" \in DOMAIN calls'[c].args

\* C28: at the token endpoint, a request whose client-credentials part
\* fails schema validation is answered with invalid_request, and a request
\* whose grant body fails schema validation is answered with invalid_grant.
C28_SchemaErrors ==
  [][\A c \in CallIds :
       SchemaError(c) =>
         LET payload == calls'[c].args.payload IN
         /\ calls'[c].pc = "done"
         /\ IF ~oauthClientCredentialsSchema(payload).ok
            THEN calls'[c].error.error = "invalid_request"
            ELSE calls'[c].error.error = "invalid_grant"]_vars

\* C28, as the handler does it: a request whose client-credentials part
\* fails schema validation is answered with invalid_client, whatever its
\* grant body, and a request with valid credentials whose grant body fails
\* schema validation is answered with invalid_grant; nothing is looked up
\* or changed.
C28_SchemaErrorsAsHandled ==
  [][\A c \in CallIds :
       /\ SchemaError(c) =>
            LET payload == calls'[c].args.payload IN
            /\ calls'[c].pc = "done"
            /\ ~oauthClientCredentialsSchema(payload).ok
                 \/ ~oauthTokenRequestSchema(payload).ok
            /\ IF ~oauthClientCredentialsSchema(payload).ok
               THEN calls'[c].error.error = "invalid_client"
               ELSE calls'[c].error.error = "invalid_grant"
            /\ UNCHANGED << stores, log >>
       /\ ( /\ calls[c].op = "idle"
            /\ calls'[c].op = "token"
            /\ "payload" \notin DOMAIN calls'[c].args )
          => \E payload \in TokenPayloads :
               /\ oauthClientCredentialsSchema(payload).ok
               /\ oauthTokenRequestSchema(payload).ok
               /\ calls'[c].args.credentials
                    = oauthClientCredentialsSchema(payload).value
               /\ calls'[c].args.request
                    = oauthTokenRequestSchema(payload).value]_vars

\* A body without client_id has been answered with invalid_client, and a
\* body with a client_id and a code but no code_verifier with invalid_grant.
C28_Witness ==
  \E c, d \in CallIds :
    /\ Failed(c, "token")
    /\ "payload" \in DOMAIN calls[c].args
    /\ calls[c].args.payload.client_id = NULL
    /\ calls[c].error.error = "invalid_client"
    /\ Failed(d, "token")
    /\ "payload" \in DOMAIN calls[d].args
    /\ calls[d].args.payload.client_id = "c1"
    /\ calls[d].args.payload.grant_type = "authorization_code"
    /\ calls[d].args.payload.code \in IssuedCodes
    /\ calls[d].args.payload.code_verifier = NULL
    /\ calls[d].error.error = "invalid_grant"

\* ----------------------------------------------------------- introspection

\* The credentials of the introspection specification: PAR and the token
\* endpoint get the none method of the native client and client assertions
\* of client c2; the introspection endpoint gets, besides, a fresh assertion,
\* an assertion that does not verify and an unknown client.
IssuingCredentials ==
  { CredentialsNone("n1"), CredentialsJwt("c2", "a1", "K1", TRUE),
    CredentialsJwt("c2", "a2", "K1", TRUE) }
IntrospectCredentials ==
  { CredentialsNone("n1"), CredentialsNone("x1"),
    CredentialsJwt("c2", "a2", "K1", TRUE),
    CredentialsJwt("c2", "a3", "K1", TRUE),
    CredentialsJwt("c2", "a4", "K1", FALSE) }

\* The tokens presented for introspection: the ones issued, and one that
\* does not exist.
IntrospectTokens == 1 .. nextToken

\* POST /oauth/par for a request approved at once.
introspect_pushedAuthorizationRequest(c) ==
  /\ MayCreate(MaxAuthzRequests)
  /\ pushedAuthorizationRequest(c, IssuingCredentials, {HintParameters}, {NULL})

NextIntrospect ==
  \E c \in CallIds :
    \/ introspect_pushedAuthorizationRequest(c)
    \/ pushedAuthorizationRequest_createAuthorizationRequest(c)
    \/ authorize(c, {"n1", "c2"}, RequestUriQueries, {"d1"})
    \/ authorize_getSessions(c)
    \/ authorize_setAuthorized(c)
    \/ authorize_deleteRequest(c)
    \/ token(c, IssuingCredentials, CodeGrantRequests({"v1"}), {NULL})
    \/ codeGrant_findCode(c)
    \/ codeGrant_uniqueCodeChallenge(c)
    \/ codeGrant_accountManager_get(c)
    \/ codeGrant_create(c)
    \/ codeGrant_revoke(c)
    \/ introspect(c, IntrospectCredentials, IntrospectTokens)
    \/ introspect_clientTokenInfo(c)
    \/ Respond(c)

SpecIntrospect == InitReplay /\ [][NextIntrospect]_vars

\* The step in which a call of introspect ends.
IntrospectEnds(c) ==
  /\ calls[c].pc # "done"
  /\ calls'[c].op = "introspect"
  /\ calls'[c].pc = "done"

\* The token presented in that call is one the client may see.
TokenOfClient(c) ==
  LET a == calls'[c].args IN
  /\ a.token \in DOMAIN tokenStore
  /\ tokenStore[a.token].clientId = a.credentials.client_id

\* C29: every failing introspection call, whatever fails (client
\* authentication, unknown token, token of another client), returns exactly
\* {active: false} with no other field and never an error.
C29_FailureIsInactive ==
  [][\A c \in CallIds :
       IntrospectEnds(c) =>
         /\ calls'[c].error.error = NULL
         /\ calls'[c].value.active \/ calls'[c].value = [active |-> FALSE]]_vars

\* C29, as the operation does it: once the client has authenticated with a
\* method other than none, every failing call returns exactly
\* {active: false}, with no other field and no error, and it fails exactly
\* when the token is not one of the client's; a call whose client
\* authentication fails, or used the none method, ends with the error of
\* the authentication before any token is looked up.
C29_LookupFailureIsInactive ==
  [][\A c \in CallIds :
       IntrospectEnds(c) =>
         IF calls[c].op = "idle"
         THEN /\ calls'[c].error.error
                   \in {"invalid_client", "invalid_grant", "unauthorized_client"}
              /\ calls'[c].value = NoValue
              /\ \/ authenticateClient(calls'[c].args.credentials).error.error # NULL
                 \/ calls'[c].args.credentials.method = "none"
         ELSE /\ calls'[c].error.error = NULL
              /\ IF TokenOfClient(c)
                 THEN /\ calls'[c].value.active
                      /\ calls'[c].value.jti = calls'[c].args.token
                 ELSE calls'[c].value = [active |-> FALSE]]_vars

\* An authenticated client has asked about a token that does not exist and
\* about the token of another client, and both calls have returned
\* {active: false}.
C29_Witness ==
  \E c, d \in CallIds :
    /\ Succeeded(c, "introspect")
    /\ calls[c].args.token \notin DOMAIN tokenStore
    /\ calls[c].value = [active |-> FALSE]
    /\ Succeeded(d, "introspect")
    /\ calls[d].args.token \in DOMAIN tokenStore
    /\ tokenStore[calls[d].args.token].clientId = "n1"
    /\ calls[d].args.credentials.client_id = "c2"
    /\ calls[d].value = [active |-> FALSE]

\* The step in which POST /oauth/introspect is received in frame c with
\* credentials of the none method.
IntrospectArrivesNone(c) ==
  /\ calls[c].op = "idle"
  /\ calls'[c].op = "introspect"
  /\ calls'[c].args.credentials.method = "none"

\* C30: introspection requires client authentication: a call by a client
\* authenticated with the none method is refused, with
\* unauthorized_client, before any token lookup takes place, and its
\* outcome is the same whether the token exists or not.
C30_IntrospectionNeedsAuthentication ==
  [][\A c \in CallIds :
       /\ IntrospectArrivesNone(c) =>
            /\ calls'[c].pc = "done"
            /\ calls'[c].value = NoValue
            /\ calls'[c].error =
                 IF ClientManager_getClient(
                      calls'[c].args.credentials.client_id).error = NULL
                 THEN UnauthorizedClientError
                 ELSE InvalidClientError
       /\ calls'[c].op = "introspect" /\ calls'[c].pc = "clientTokenInfo"
            => calls'[c].clientAuth.method # "none"]_vars

\* The native client, which authenticates with the none method, has asked
\* about its own token and about a token that does not exist, and got the
\* same refusal.
C30_Witness ==
  \E c, d \in CallIds :
    /\ Failed(c, "introspect")
    /\ calls[c].args.credentials = CredentialsNone("n1")
    /\ calls[c].args.token \in DOMAIN tokenStore
    /\ tokenStore[calls[c].args.token].clientId = "n1"
    /\ Failed(d, "introspect")
    /\ calls[d].args.credentials = CredentialsNone("n1")
    /\ calls[d].args.token \notin DOMAIN tokenStore
    /\ calls[c].error = UnauthorizedClientError
    /\ calls[d].error = calls[c].error
    /\ calls[d].value = calls[c].value

\* --------------------------------------------------------------- round trip

\* Two web clients that authenticate with client assertions: one assertion
\* for PAR, one for the token endpoint and one for introspection.
RoundTripClients == {"c1", "c2"}
ParCredentials == {CredentialsJwt(id, "a1", "K1", TRUE) : id \in RoundTripClients}
CodeCredentials == {CredentialsJwt(id, "a2", "K1", TRUE) : id \in RoundTripClients}
InfoCredentials == {CredentialsJwt(id, "a3", "K1", TRUE) : id \in RoundTripClients}

\* The parameters pushed: the scope atproto with the account alice, and a
\* wider scope with the account bob, each with a code_challenge of its own
\* (the S256 and the plain challenge of the same code_verifier).
RoundTripParameters ==
  { [Parameters("h1", "S256", NULL, NULL, "alice") EXCEPT !.scope = "atproto"],
    [Parameters("v1", "plain", NULL, NULL, "bob")
       EXCEPT !.scope = "atproto transition:generic"] }

\* Both accounts are signed in on the device and have authorized both
\* clients.
InitRoundTrip ==
  InitWith(Put(Put(<< >>, << "d1", "alice" >>, Session(0, RoundTripClients)),
               << "d1", "bob" >>, Session(0, RoundTripClients)))

\* GET /oauth/authorize with a pushed request and the client_id of the
\* client that pushed it.
roundTrip_authorize(c) ==
  \E uri \in IssuedUris :
    authorize(c, {e.client_id : e \in {r \in log : r.kind = "request" /\ r.uri = uri}},
              {[request_uri |-> uri]}, {"d1"})

NextRoundTrip ==
  \E c \in CallIds :
    \/ pushedAuthorizationRequest(c, ParCredentials, RoundTripParameters, {NULL})
    \/ pushedAuthorizationRequest_createAuthorizationRequest(c)
    \/ roundTrip_authorize(c)
    \/ authorize_getSessions(c)
    \/ authorize_setAuthorized(c)
    \/ authorize_deleteRequest(c)
    \/ token(c, CodeCredentials, CodeGrantRequests({"v1"}), {NULL})
    \/ codeGrant_findCode(c)
    \/ codeGrant_uniqueCodeChallenge(c)
    \/ codeGrant_accountManager_get(c)
    \/ codeGrant_create(c)
    \/ codeGrant_revoke(c)
    \/ introspect(c, InfoCredentials, IssuedTokens)
    \/ introspect_clientTokenInfo(c)
    \/ Respond(c)

SpecRoundTrip == InitRoundTrip /\ [][NextRoundTrip]_vars

\* The flow that led to token id: the token as the code grant issued it, the
\* code it was issued for and the authorization request of that code.
FlowToken(id) == CHOOSE e \in log : e.kind = "token" /\ e.id = id
FlowCode(id) == CHOOSE e \in log : e.kind = "code" /\ e.code = FlowToken(id).code
FlowRequest(id) == CHOOSE e \in log : e.kind = "request" /\ e.uri = FlowToken(id).uri

\* C31: round trip: when the client of a completed flow (pushed request,
\* authorization, code, token) introspects the access token of that flow
\* while the token is stored, the answer is active, with the scope of the
\* authorized parameters, the client_id of the requesting client and the
\* sub of the account that authorized.
C31_RoundTrip ==
  [][\A c \in CallIds :
       ( /\ IntrospectEnds(c)
         /\ calls[c].op = "introspect"
         /\ calls'[c].args.token \in DOMAIN tokenStore
         /\ calls'[c].args.credentials.client_id
              = FlowRequest(calls'[c].args.token).client_id )
       => LET id == calls'[c].args.token
              value == calls'[c].value
          IN  /\ calls'[c].error.error = NULL
              /\ value.active
              /\ value.scope = FlowRequest(id).scope
              /\ value.client_id = calls'[c].args.credentials.client_id
              /\ value.sub = FlowCode(id).sub
              /\ FlowCode(id).uri = FlowRequest(id).uri]_vars

\* Client c2 has introspected a token of bob with the wider scope, and
\* client c1 a token of alice with the scope atproto.
C31_Witness ==
  \E c, d \in CallIds :
    /\ Succeeded(c, "introspect")
    /\ calls[c].value.active
    /\ calls[c].value.scope = "atproto transition:generic"
    /\ calls[c].value.client_id = "c2"
    /\ calls[c].value.sub = "bob"
    /\ Succeeded(d, "introspect")
    /\ calls[d].value.active
    /\ calls[d].value.scope = "atproto"
    /\ calls[d].value.client_id = "c1"
    /\ calls[d].value.sub = "alice"

\* -------------------------------------------------------------- revocation

\* The object {} of the revocation response.
EmptyObject == [keys |-> {}]

\* oauthTokenIdentificationSchema: the body must carry a token.
NoToken == [kind |-> "none", id |-> NoId]
oauthTokenIdentificationSchema(payload) ==
  IF payload.token # NoToken THEN [ok |-> TRUE, value |-> payload]
  ELSE [ok |-> FALSE, value |-> NoValue]

\* The bodies posted to /oauth/revoke: an access or refresh token or a code,
\* issued or not, and a body without token.
RevokePayloads ==
  {[token |-> TokenOf(id)] : id \in 1 .. nextToken}
    \cup {[token |-> CodeOf(code)] : code \in 1 .. nextCode}
    \cup {[token |-> NoToken]}

\* The call of the error hook.
OnError(op, message) == [kind |-> "onError", op |-> op, message |-> message]

\* POST /oauth/revoke is received: the body is parsed and validated.
revokeRoute(c, Payloads) ==
  /\ Free(c)
  /\ \E payload \in Payloads :
     LET tokenIdentification == oauthTokenIdentificationSchema(payload)
         a == [payload |-> payload]
     IN  IF ~tokenIdentification.ok
         THEN ThrowAs(c, "revoke", a, throwInvalidRequest)
         ELSE Goto(c, [op |-> "revoke", pc |-> "revoke", args |-> a,
                       token |-> tokenIdentification.value.token])
  /\ UNCHANGED << now, stores, log >>

\* A revocation route that answers with the error of server.revoke.
revokeRoute_revoke_rethrow(c) ==
  /\ At(c, "revoke", "revoke")
  /\ \E failure \in BOOLEAN :
       IF failure
       THEN /\ Throw(c, ServerError)
            /\ UNCHANGED << tokenStore, log >>
       ELSE /\ tokenStore' = TokenManager_revoke(calls[c].token)
            /\ Return(c, EmptyObject)
            /\ UNCHANGED log
  /\ UNCHANGED << now, requestStore, nextUri, nextCode, nextToken,
                  replayStore, accountStore >>

\* server.revoke(tokenIdentification) inside the try of the route: the
\* token manager revokes, or fails and the error goes to the error hook;
\* the route returns {} in both cases.
revokeRoute_revoke(c) ==
  /\ At(c, "revoke", "revoke")
  /\ \E failure \in BOOLEAN :
       IF failure
       THEN /\ log' = log \cup {OnError("revoke", "Failed to revoke token")}
            /\ UNCHANGED tokenStore
       ELSE /\ tokenStore' = TokenManager_revoke(calls[c].token)
            /\ UNCHANGED log
  /\ Return(c, EmptyObject)
  /\ UNCHANGED << now, requestStore, nextUri, nextCode, nextToken,
                  replayStore, accountStore >>

NextRevoke ==
  \E c \in CallIds :
    \/ hint_pushedAuthorizationRequest(c)
    \/ pushedAuthorizationRequest_createAuthorizationRequest(c)
    \/ authorize(c, {"c1"}, RequestUriQueries, {"d1"})
    \/ authorize_getSessions(c)
    \/ authorize_setAuthorized(c)
    \/ authorize_deleteRequest(c)
    \/ token(c, {CredentialsNone("c1")}, RefreshRequests, {NULL})
    \/ codeGrant_findCode(c)
    \/ codeGrant_uniqueCodeChallenge(c)
    \/ codeGrant_accountManager_get(c)
    \/ codeGrant_create(c)
    \/ codeGrant_revoke(c)
    \/ refreshTokenGrant_find(c)
    \/ refreshTokenGrant_rotate(c)
    \/ refreshTokenGrant_revoke(c)
    \/ revokeRoute(c, RevokePayloads)
    \/ revokeRoute_revoke(c)
    \/ Respond(c)

SpecRevoke == InitAuthz /\ [][NextRevoke]_vars

\* The step in which a call of POST /oauth/revoke ends.
RevokeEnds(c) ==
  /\ calls[c].pc # "done"
  /\ calls'[c].op = "revoke"
  /\ calls'[c].pc = "done"

\* C32: the revocation endpoint always answers 200 with an empty object,
\* even when the token is unknown, already revoked, or the revocation
\* fails; a failure is at most reported to the error hook.
C32_AlwaysEmptyObject ==
  [][\A c \in CallIds :
       RevokeEnds(c) =>
         /\ calls'[c].error.error = NULL
         /\ calls'[c].value = EmptyObject]_vars

\* C32, as the route does it: a body that carries a token is always
\* answered 200 with an empty object, whether the token is unknown, already
\* revoked, or the revocation fails, and a failure only adds a call of the
\* error hook; a body without token is answered with invalid_request,
\* status 400, and nothing is revoked.
C32_EmptyObjectForEveryToken ==
  [][\A c \in CallIds :
       RevokeEnds(c) =>
         IF calls[c].op = "idle"
         THEN /\ ~oauthTokenIdentificationSchema(calls'[c].args.payload).ok
              /\ calls'[c].error = throwInvalidRequest
              /\ buildErrorStatus(calls'[c].error) = 400
              /\ UNCHANGED << stores, log >>
         ELSE /\ calls'[c].error.error = NULL
              /\ calls'[c].value = EmptyObject
              /\ \/ /\ tokenStore' = TokenManager_revoke(calls[c].token)
                    /\ UNCHANGED log
                 \/ /\ UNCHANGED tokenStore
                    /\ log' = log \cup
                                {OnError("revoke", "Failed to revoke token")}]_vars

\* Two revocations have been answered with {}: one that failed and was
\* reported to the error hook while the token stayed in the store, and one
\* whose token was never issued.
C32_Witness ==
  /\ OnError("revoke", "Failed to revoke token") \in log
  /\ \E c, d \in CallIds :
       /\ Succeeded(c, "revoke")
       /\ calls[c].value = EmptyObject
       /\ calls[c].args.payload.token.kind = "token"
       /\ calls[c].args.payload.token.id \in DOMAIN tokenStore
       /\ Succeeded(d, "revoke")
       /\ calls[d].value = EmptyObject
       /\ calls[d].args.payload.token = TokenOf(nextToken)

\* --------------------------------------------------------------- rejection

\* The step in which rejectRequest returns, and the one in which it is
\* received.
RejectEnds(c) == At(c, "reject", "deleteRequest") /\ calls'[c].pc = "done"
RejectArrives(c) == calls[c].op = "idle" /\ calls'[c].op = "reject"

\* The request has been rejected: a rejectRequest for it has returned.
WasRejected(uri) == Rejected(uri) \in log

\* A step that redeems a code of the request, or issues one for it.
Redeems(uri) == \E e \in log' \ log : e.kind = "findCode" /\ e.uri = uri
IssuesCodeFor(uri) == \E e \in CodesIssued : e.uri = uri

\* C33: rejectRequest goes on exactly for a request that is valid on the
\* calling device, then deletes the request and returns a redirect with
\* error=access_denied; once it has returned, however it was interleaved
\* with acceptRequest on the same request_uri, no code of that request is
\* redeemed at the token endpoint, no code is issued for it, and the request
\* stays deleted.
C33_RejectIsFinal ==
  [][\A c \in CallIds :
       /\ RejectArrives(c) =>
            LET a == calls'[c].args IN
            IF RequestManager_get(a.requestUri, a.deviceId, NULL).error.error = NULL
            THEN calls'[c].pc = "deleteRequest"
            ELSE calls'[c].pc = "done" /\ calls'[c].error = InvalidGrantError
       /\ RejectEnds(c) =>
            /\ calls'[c].error.error = NULL
            /\ calls'[c].value.redirect.error = "access_denied"
            /\ calls[c].args.requestUri \notin DOMAIN requestStore'
            /\ WasRejected(calls[c].args.requestUri)'
       /\ \A uri \in IssuedUris :
            WasRejected(uri) =>
              /\ ~Redeems(uri)
              /\ ~IssuesCodeFor(uri)
              /\ uri \notin DOMAIN requestStore']_vars

\* A request was accepted while its rejection was under way: its code was
\* issued, the rejection has returned, and a token request presenting that
\* code afterwards has failed.
C33_Witness ==
  \E c \in CallIds, e \in log :
    /\ e.kind = "code"
    /\ e.via = "accept"
    /\ WasRejected(e.uri)
    /\ Failed(c, "token")
    /\ calls[c].args.request.code = e.code
    /\ ~ \E g \in log : g.kind = "findCode" /\ g.uri = e.uri

\* -------------------------------------------------------------- acceptance

\* Device d1 holds alice, signed in with remember, and bob, signed in
\* without it, at the start or at a time still to come; device d2 holds
\* alice only.  Nobody has authorized a client yet.
InitAccept ==
  \E t \in {0, MaxTime + 1} :
    InitWith(Put(Put(Put(<< >>, << "d1", "alice" >>, Session(0, {})),
                     << "d1", "bob" >>,
                     [Session(t, {}) EXCEPT !.remember = FALSE]),
                 << "d2", "alice" >>, Session(0, {})))

\* POST /oauth/par by client c1, with and without a login_hint for alice.
accept_pushedAuthorizationRequest(c) ==
  /\ MayCreate(MaxAuthzRequests)
  /\ pushedAuthorizationRequest(c, {CredentialsNone("c1")},
                                {PageParameters, HintParameters}, {NULL})

NextAccept ==
  \E c \in CallIds :
    \/ accept_pushedAuthorizationRequest(c)
    \/ pushedAuthorizationRequest_createAuthorizationRequest(c)
    \/ authorize(c, {"c1"}, RequestUriQueries, DeviceIds)
    \/ authorize_getSessions(c)
    \/ authorize_setAuthorized(c)
    \/ authorize_deleteRequest(c)
    \/ acceptRequest(c, IssuedUris, DeviceIds, Subs)
    \/ acceptRequest_accountManager_get(c)
    \/ acceptRequest_setAuthorized(c)
    \/ acceptRequest_addAuthorizedClient(c)
    \/ acceptRequest_deleteRequest(c)
    \/ Respond(c)
    \/ Tick

SpecAccept == InitAccept /\ [][NextAccept]_vars

\* The account of call c is attached to the calling device, and its
\* authentication is younger than authenticationMaxAge.
Attached(c) == << calls[c].args.deviceId, calls[c].args.sub >> \in DOMAIN accountStore
Young(c) ==
  LET t == accountStore[<< calls[c].args.deviceId, calls[c].args.sub >>].authenticatedAt
  IN  0 <= now - t /\ now - t < AUTHENTICATION_MAX_AGE

\* The stored request of call c can still be authorized.
Authorizable(c) ==
  RequestManager_setAuthorized(calls[c].args.requestUri, calls[c].args.sub,
                               calls[c].args.deviceId).error.error = NULL

\* C34: acceptRequest goes on to issue a code for any sub attached to the
\* calling device whose authentication is younger than authenticationMaxAge,
\* whether or not remember was set at sign-in and whether or not the sub is
\* the login_hint of the request, and the code is issued whenever the
\* request can still be authorized; for a sub that is not attached to the
\* device, or whose authentication is not young, no code is issued.
C34_AcceptAnyAttachedAccount ==
  [][\A c \in CallIds :
       /\ ( At(c, "accept", "accountManager_get") /\ calls'[c] # calls[c] )
          => IF Attached(c) /\ Young(c)
             THEN calls'[c].pc = "setAuthorized"
             ELSE calls'[c].pc = "deleteRequest"
       /\ ( At(c, "accept", "setAuthorized") /\ calls'[c] # calls[c] )
          => IF Authorizable(c)
             THEN \E e \in CodesIssued :
                    /\ e.via = "accept"
                    /\ e.sub = calls[c].args.sub
                    /\ e.uri = calls[c].args.requestUri
                    /\ calls'[c].code = e.code
             ELSE CodesIssued = {} /\ calls'[c].pc = "deleteRequest"
       /\ ( At(c, "accept", "deleteRequest") /\ calls'[c] # calls[c] )
          => CodesIssued = {} /\ calls'[c].error.error # NULL
       /\ \A e \in CodesIssued :
            e.via = "accept" => << e.deviceId, e.sub >> \in DOMAIN accountStore]_vars

\* acceptRequest has returned a code for bob, who signed in without
\* remember, on a request whose login_hint is alice.
C34_Witness ==
  \E c \in CallIds, e \in log :
    /\ Succeeded(c, "accept")
    /\ calls[c].args.sub = "bob"
    /\ ~accountStore[<< calls[c].args.deviceId, "bob" >>].remember
    /\ e.kind = "code"
    /\ e.via = "accept"
    /\ e.sub = "bob"
    /\ calls[c].value.redirect.code = e.code
    /\ \E r \in log : r.kind = "request" /\ r.uri = e.uri /\ r.login_hint = "alice"

\* -------------------------------------------------------------------- CSRF

\* The CSRF cookies of a browser are what the Set-Cookie headers of the
\* responses it has received made them: each header is recorded with its
\* rank among the headers of its cookie, and the cookie csrf-<request_uri> of a device is the value of the
\* last one, NoCookie when it cleared the cookie or when there was none.
NoCookie == 0
csrfCookie(requestUri) == requestUri
CookieHeaders(deviceId, name) ==
  {e \in log : /\ e.kind \in {"setCookie", "clearCookie"}
               /\ e.deviceId = deviceId
               /\ e.name = name}
Cookie(deviceId, name) ==
  LET headers == CookieHeaders(deviceId, name) IN
  IF headers = {} THEN NoCookie
  ELSE LET last == CHOOSE e \in headers : \A g \in headers : g.n <= e.n
       IN  IF last.kind = "setCookie" THEN last.token ELSE NoCookie

\* setupCsrfToken: a new token in the cookie; validateCsrfToken with
\* clearCookie: the csrf_token of the query must be the cookie of that name,
\* and the response clears the cookie.
MaxCookieHeaders == 3
Rank(deviceId, name) == Cardinality(CookieHeaders(deviceId, name)) + 1
NewToken(deviceId, name) ==
  name * (MaxCookieHeaders + 1) + Rank(deviceId, name)
setupCsrfToken(deviceId, name) ==
  [kind |-> "setCookie", deviceId |-> deviceId, name |-> name,
   n |-> Rank(deviceId, name), token |-> NewToken(deviceId, name)]
clearCsrfToken(deviceId, name) ==
  [kind |-> "clearCookie", deviceId |-> deviceId, name |-> name,
   n |-> Rank(deviceId, name), token |-> NoCookie]
validateCsrfToken(cookie, csrfToken) == cookie # NoCookie /\ csrfToken = cookie
CsrfError ==
  [InvalidRequestError EXCEPT !.error_description = "CSRF mismatch"]

\* The csrf_token values a navigation may carry: the tokens that were set,
\* and none.
CsrfTokens ==
  {e.token : e \in {h \in log : h.kind = "setCookie"}} \cup {NoCookie}

\* A handler that validates the cookie and leaves it in place.
ResponseCookies_keepCookie(f) ==
  IF /\ f.op = "authorize"
     /\ f.error.error = NULL
     /\ "authorize" \in DOMAIN f.value
  THEN {setupCsrfToken(f.args.deviceId, csrfCookie(f.value.authorize.uri))}
  ELSE {}

\* The Set-Cookie headers of the response of a finished call: GET
\* /oauth/authorize sets the cookie of the request when it sends the
\* authorization page; an accept or reject navigation whose token was
\* validated clears it, whatever its handler did.
ResponseCookies(f) ==
  IF /\ f.op = "authorize"
     /\ f.error.error = NULL
     /\ "authorize" \in DOMAIN f.value
  THEN {setupCsrfToken(f.args.deviceId, csrfCookie(f.value.authorize.uri))}
  ELSE IF f.op \in {"accept", "reject"} /\ f.error # CsrfError
  THEN {clearCsrfToken(f.args.deviceId, csrfCookie(f.args.requestUri))}
  ELSE {}

\* The browser receives the response of call c, cookies included.
sendResponse(c) ==
  /\ calls[c].pc = "done"
  /\ \A e \in ResponseCookies(calls[c]) : e.n <= MaxCookieHeaders
  /\ log' = log \cup ResponseCookies(calls[c])
  /\ Goto(c, Idle)
  /\ UNCHANGED << now, stores >>

\* authorizeRedirectNavigationHandler: the request_uri comes from the
\* Referer, the csrf_token from the query, and the handler runs only when
\* the token is the cookie of that request_uri.
authorizeRedirectNavigationHandler(c, op, a, next) ==
  IF validateCsrfToken(Cookie(a.deviceId, csrfCookie(a.requestUri)), a.csrf_token)
  THEN api_get(c, op, a, next)
  ELSE /\ Free(c)
       /\ ThrowAs(c, op, a, CsrfError)
       /\ UNCHANGED << now, stores, log >>

\* GET /oauth/authorize/accept and GET /oauth/authorize/reject.
acceptRoute(c, Requests, Devices, Accounts) ==
  \E requestUri \in Requests, deviceId \in Devices, sub \in Accounts,
     csrfToken \in CsrfTokens :
    authorizeRedirectNavigationHandler(
      c, "accept",
      [requestUri |-> requestUri, deviceId |-> deviceId, sub |-> sub,
       csrf_token |-> csrfToken],
      "accountManager_get")
rejectRoute(c, Requests, Devices) ==
  \E requestUri \in Requests, deviceId \in Devices, csrfToken \in CsrfTokens :
    authorizeRedirectNavigationHandler(
      c, "reject",
      [requestUri |-> requestUri, deviceId |-> deviceId,
       csrf_token |-> csrfToken],
      "deleteRequest")

\* POST /oauth/par by client c1, for a request that gets the authorization
\* page and for one that is approved at once.
csrf_pushedAuthorizationRequest(c) ==
  pushedAuthorizationRequest(c, {CredentialsNone("c1")},
                             {PageParameters, HintParameters}, {NULL})

NextCsrf ==
  \E c \in CallIds :
    \/ csrf_pushedAuthorizationRequest(c)
    \/ pushedAuthorizationRequest_createAuthorizationRequest(c)
    \/ authorize(c, {"c1"}, RequestUriQueries, {"d1"})
    \/ authorize_getSessions(c)
    \/ authorize_setAuthorized(c)
    \/ authorize_deleteRequest(c)
    \/ acceptRoute(c, IssuedUris, {"d1"}, {"alice"})
    \/ acceptRequest_accountManager_get(c)
    \/ acceptRequest_setAuthorized(c)
    \/ acceptRequest_addAuthorizedClient(c)
    \/ acceptRequest_deleteRequest(c)
    \/ rejectRoute(c, IssuedUris, {"d1"})
    \/ rejectRequest_deleteRequest(c)
    \/ sendResponse(c)

SpecCsrf == InitAuthz /\ [][NextCsrf]_vars

\* The step in which an accept or reject navigation is received in frame c,
\* and whether its handler runs.
NavigationArrives(c) ==
  calls[c].op = "idle" /\ calls'[c].op \in {"accept", "reject"}
Processed(f) ==
  /\ f.op \in {"accept", "reject"}
  /\ f.pc = "done" => f.error # CsrfError

\* C35: each cookie csrf-<request_uri> authorises at most one accept or
\* reject navigation: no two navigations are processed with the same token.
C35_OneNavigationPerCookie ==
  \A c, d \in CallIds :
    ( /\ c # d
      /\ Processed(calls[c])
      /\ Processed(calls[d])
      /\ calls[c].args.requestUri = calls[d].args.requestUri )
    => calls[c].args.csrf_token # calls[d].args.csrf_token

\* C35, as the routes do it: a navigation is processed exactly when its
\* csrf_token is the cookie the browser holds for the request_uri of its
\* Referer; the response of a processed navigation clears that cookie,
\* whether the handler failed or not, so that no navigation sent after the
\* browser received it is processed with that token; and the cookie is set
\* only by the response of a GET /authorize that sends the authorization
\* page, never by one that redirects.
C35_CookieValidatedThenCleared ==
  [][\A c \in CallIds :
       /\ NavigationArrives(c) =>
            LET a == calls'[c].args
                cookie == Cookie(a.deviceId, csrfCookie(a.requestUri))
            IN  /\ Processed(calls'[c])
                     <=> (cookie # NoCookie /\ a.csrf_token = cookie)
                /\ ~Processed(calls'[c]) =>
                     /\ calls'[c].pc = "done"
                     /\ UNCHANGED << stores, log >>
       /\ ( calls[c].pc = "done" /\ calls'[c] = Idle /\ Processed(calls[c]) ) =>
            \A deviceId \in DeviceIds, requestUri \in IssuedUris :
              ( /\ deviceId = calls[c].args.deviceId
                /\ requestUri = calls[c].args.requestUri )
              => Cookie(deviceId, csrfCookie(requestUri))' = NoCookie]_vars
  /\ [][\A e \in log' \ log :
         e.kind = "setCookie" =>
           \E c \in CallIds :
             /\ calls[c].pc = "done"
             /\ calls'[c] = Idle
             /\ calls[c].op = "authorize"
             /\ authorizeRoute(calls[c]) = sendAuthorizePage
             /\ e.deviceId = calls[c].args.deviceId
             /\ e.name = csrfCookie(calls[c].value.authorize.uri)
             /\ e.token \notin CsrfTokens]_vars

\* An accept was processed and failed, its response cleared the cookie, and
\* a reject then sent with the same token was refused; meanwhile a GET
\* /authorize that redirected with a code has set no cookie.
C35_Witness ==
  \E c \in CallIds, e, h \in log :
    /\ h.kind = "setCookie"
    /\ e.kind = "clearCookie"
    /\ e.name = h.name
    /\ e.n > h.n
    /\ Failed(c, "reject")
    /\ calls[c].error = CsrfError
    /\ calls[c].args.csrf_token = h.token
    /\ calls[c].args.requestUri = h.name
    /\ \E k \in log : k.kind = "code" /\ k.via = "authorize" /\ k.uri # h.name
    /\ \A g \in log : g.kind = "setCookie" => g.name = h.name

\* ------------------------------------------------------- failure and retry

\* The requests pushed: one that gets the authorization page, one that is
\* approved at once for alice, and one that must fail (prompt=none for an
\* account that is not signed in).
FailingParameters == Parameters("h1", "S256", NULL, "none", "bob")
retry_pushedAuthorizationRequest(c) ==
  /\ MayCreate(MaxAuthzRequests)
  /\ pushedAuthorizationRequest(
       c, {CredentialsNone("c1")},
       {PageParameters, HintParameters, FailingParameters}, {NULL})

NextRetry ==
  \E c \in CallIds :
    \/ retry_pushedAuthorizationRequest(c)
    \/ pushedAuthorizationRequest_createAuthorizationRequest(c)
    \/ authorize(c, {"c1"}, RequestUriQueries \cup {FailingParameters}, {"d1"})
    \/ authorize_getSessions(c)
    \/ authorize_setAuthorized(c)
    \/ authorize_deleteRequest(c)
    \/ acceptRequest(c, IssuedUris, {"d1"}, Subs)
    \/ acceptRequest_accountManager_get(c)
    \/ acceptRequest_setAuthorized(c)
    \/ acceptRequest_addAuthorizedClient(c)
    \/ acceptRequest_deleteRequest(c)
    \/ token(c, {CredentialsNone("c1")}, CodeGrantRequests({"v1"}), {NULL})
    \/ codeGrant_findCode(c)
    \/ codeGrant_uniqueCodeChallenge(c)
    \/ codeGrant_accountManager_get(c)
    \/ codeGrant_create(c)
    \/ codeGrant_revoke(c)
    \/ Respond(c)

SpecRetry == InitAuthz /\ [][NextRetry]_vars

\* The step in which call c, which had loaded or created its request,
\* reports an error.
FailsAfterLoad(c, op) ==
  /\ calls[c].op = op
  /\ calls[c].pc \notin {"idle", "done"}
  /\ calls'[c].pc = "done"
  /\ calls'[c].error.error # NULL

NextBurn ==
  \E c \in CallIds :
    \/ pushedAuthorizationRequest(c, {CredentialsNone("c1")},
                                  {HintParameters}, {NULL})
    \/ pushedAuthorizationRequest_createAuthorizationRequest(c)
    \/ authorize(c, {"c1"}, RequestUriQueries, {"d1"})
    \/ authorize_getSessions(c)
    \/ authorize_setAuthorized(c)
    \/ authorize_deleteRequest(c)
    \/ token(c, {CredentialsNone("c1")}, CodeGrantRequests(CodeVerifiers),
             {NULL})
    \/ codeGrant_findCode(c)
    \/ codeGrant_uniqueCodeChallenge(c)
    \/ codeGrant_accountManager_get(c)
    \/ codeGrant_create(c)
    \/ codeGrant_revoke(c)
    \/ Respond(c)

SpecBurn == InitReplay /\ [][NextBurn]_vars

\* Call c is a code grant about to create its token, and the token manager
\* refuses (PKCE or the DPoP binding).
FailsAtCreate(c) ==
  /\ At(c, "token", "create")
  /\ TokenManager_create(calls[c].args.credentials.client_id,
                         calls[c].clientAuth, calls[c].found.sub,
                         calls[c].found.deviceId, calls[c].found.parameters,
                         calls[c].args.request,
                         calls[c].args.dpopJkt).error.error # NULL

\* The code_challenges of the model, and the tokens issued for a code or for
\* a request carrying a code_challenge.
CodeChallenges == {"h1", "h2", "v1", "v2"}
TokensOfCode(code) == {e \in log : e.kind = "token" /\ e.code = code}
TokensOfChallenge(h) ==
  {e \in log : /\ e.kind = "token"
               /\ \E r \in log : /\ r.kind = "request"
                                 /\ r.uri = e.uri
                                 /\ r.code_challenge = h}

\* A code grant that has got past findCode has consumed the request of its
\* code, and one that has got past uniqueCodeChallenge has recorded the
\* code_challenge as used.
ConsumedBeforeChecks ==
  \A c \in CallIds :
    ( calls[c].op = "token"
      /\ calls[c].pc \in {"uniqueCodeChallenge", "accountManager_get", "create"} )
    => /\ calls[c].found.uri \notin DOMAIN requestStore
       /\ RequestByCode(calls[c].args.request.code) = {}
       /\ calls[c].pc \in {"accountManager_get", "create"}
            => ReplayKey("code_challenge", NULL,
                         calls[c].found.parameters.code_challenge) \in replayStore

InitAuthorized ==
  InitWith(Put(Put(Put(<< >>, << "d1", "alice" >>, Session(0, {"c2"})),
                   << "d1", "bob" >>, Session(0, {})),
               << "d2", "alice" >>, Session(0, {})))

\* POST /oauth/par by clients c1 and c2, with and without a login_hint for
\* alice.
authorized_pushedAuthorizationRequest(c) ==
  /\ MayCreate(MaxAuthzRequests)
  /\ pushedAuthorizationRequest(
       c, {CredentialsNone("c1"), CredentialsNone("c2")},
       {PageParameters, HintParameters}, {NULL})

NextAuthorized ==
  \E c \in CallIds :
    \/ authorized_pushedAuthorizationRequest(c)
    \/ pushedAuthorizationRequest_createAuthorizationRequest(c)
    \/ authorize(c, {"c1", "c2"}, RequestUriQueries, DeviceIds)
    \/ authorize_getSessions(c)
    \/ authorize_setAuthorized(c)
    \/ authorize_deleteRequest(c)
    \/ acceptRequest(c, IssuedUris, DeviceIds, Subs)
    \/ acceptRequest_accountManager_get(c)
    \/ acceptRequest_setAuthorized(c)
    \/ acceptRequest_addAuthorizedClient(c)
    \/ acceptRequest_deleteRequest(c)
    \/ rejectRequest(c, IssuedUris, DeviceIds)
    \/ rejectRequest_deleteRequest(c)
    \/ Respond(c)
    \/ Tick

SpecAuthorized == InitAuthorized /\ [][NextAuthorized]_vars

\* The clients a device-account pair has authorized, in a store.
AuthorizedClients(store, deviceId, sub) ==
  IF << deviceId, sub >> \in DOMAIN store
  THEN store[<< deviceId, sub >>].authorizedClients ELSE {}

\* Call c is an acceptRequest past the setAuthorized that generated a code
\* for this account on this device, at its addAuthorizedClient.
AcceptAddsClient(c, deviceId, sub, client_id) ==
  /\ At(c, "accept", "addAuthorizedClient")
  /\ calls'[c].pc = "done"
  /\ calls[c].args.deviceId = deviceId
  /\ calls[c].args.sub = sub
  /\ calls[c].clientId = client_id
  /\ \E e \in log :
       /\ e.kind = "code"
       /\ e.via = "accept"
       /\ e.uri = calls[c].args.requestUri
       /\ e.sub = sub
       /\ e.deviceId = deviceId
       /\ e.code = calls[c].code

\* C38: a client id enters the authorizedClients of a device-account pair
\* only in the step of an acceptRequest whose setAuthorized had succeeded
\* for that account on that device, after the code was generated; the steps
\* of a rejectRequest, of an acceptRequest that fails and of GET /authorize,
\* automatic approval included, leave the account store as it is, and no
\* client id ever leaves the set.
C38_AuthorizedOnlyByAccept ==
  [][/\ \A deviceId \in DeviceIds, sub \in Subs, client_id \in KnownClientIds :
          ( /\ client_id \notin AuthorizedClients(accountStore, deviceId, sub)
            /\ client_id \in AuthorizedClients(accountStore', deviceId, sub) )
          => \E c \in CallIds : AcceptAddsClient(c, deviceId, sub, client_id)
     /\ \A deviceId \in DeviceIds, sub \in Subs :
          AuthorizedClients(accountStore, deviceId, sub)
            \subseteq AuthorizedClients(accountStore', deviceId, sub)
     /\ \A c \in CallIds :
          ( /\ calls'[c] # calls[c]
            /\ \/ calls'[c].op \in {"authorize", "reject"}
               \/ /\ calls'[c].op = "accept"
                  /\ \/ calls'[c].pc # "done"
                     \/ calls'[c].error.error # NULL )
          => UNCHANGED accountStore]_vars

\* An accept by alice on device d1 has returned its code and added client
\* c1 for alice on d1, and for no other account and on no other device.
C38_Witness ==
  \E c \in CallIds :
    /\ Succeeded(c, "accept")
    /\ calls[c].args.sub = "alice"
    /\ calls[c].args.deviceId = "d1"
    /\ AuthorizedClients(accountStore, "d1", "alice") = {"c1", "c2"}
    /\ AuthorizedClients(accountStore, "d1", "bob") = {}
    /\ AuthorizedClients(accountStore, "d2", "alice") = {}

\* ------------------------------------------------------------ getCarStream

\* What storage.getCarStream throws: the error of a repo without a root, or
\* any other error.
RepoRootNotFoundError == [error |-> "RepoRootNotFoundError", did |-> NULL]
StorageError == [error |-> "Error", did |-> NULL]

\* A frame of getCarStream: the handle actorDb that openDb returned ("none"
\* before it did), the stream carStream that storage.getCarStream returned
\* (NULL before it did) with the listeners registered on it, the error caught,
\* and what the call has thrown or returned so far.
CarFrame(pc, a, actorDb, carStream, on, err, error, value) ==
  [op |-> "getCarStream", pc |-> pc, args |-> a, actorDb |-> actorDb,
   carStream |-> carStream, on |-> on, err |-> err, error |-> error,
   value |-> value]

\* getCarStream(ctx, did, since) is called.
getCarStream(c, Dids, Revs) ==
  /\ Free(c)
  /\ \E did \in Dids, since \in Revs :
       Goto(c, CarFrame("openDb", [did |-> did, since |-> since], "none",
                        NULL, {}, NoError, NoError, NoValue))
  /\ UNCHANGED << now, stores, log >>

\* const actorDb = await ctx.actorStore.openDb(did): the handle is open, or
\* openDb throws and there is no handle.
getCarStream_openDb(c) ==
  /\ At(c, "getCarStream", "openDb")
  /\ \/ Goto(c, [calls[c] EXCEPT !.pc = "storage.getCarStream",
                                 !.actorDb = "open"])
     \/ Goto(c, [calls[c] EXCEPT !.pc = "done", !.error = StorageError])
  /\ UNCHANGED << now, stores, log >>

\* The try block: storage.getCarStream(since) returns a stream, on which
\* closeDb is registered for 'error' and 'close' before it is returned, or
\* it throws and the catch block is entered.
getCarStream_storage_getCarStream(c) ==
  /\ At(c, "getCarStream", "storage.getCarStream")
  /\ \/ Goto(c, [calls[c] EXCEPT !.pc = "returned",
                                 !.carStream = "readable",
                                 !.on = {"error", "close"},
                                 !.value = [carStream |-> c]])
     \/ \E err \in {RepoRootNotFoundError, StorageError} :
          Goto(c, [calls[c] EXCEPT !.pc = "actorDb.close", !.err = err])
  /\ UNCHANGED << now, stores, log >>

\* A catch block that rethrows at once, the handle left as it is.
getCarStream_actorDb_close_skipped(c) ==
  /\ At(c, "getCarStream", "actorDb.close")
  /\ Goto(c, [calls[c] EXCEPT !.pc = "throw"])
  /\ UNCHANGED << now, stores, log >>

\* The catch block: await actorDb.close().
getCarStream_actorDb_close(c) ==
  /\ At(c, "getCarStream", "actorDb.close")
  /\ Goto(c, [calls[c] EXCEPT !.pc = "throw", !.actorDb = "closed"])
  /\ UNCHANGED << now, stores, log >>

\* The catch block, after the close: a RepoRootNotFoundError is thrown as an
\* InvalidRequestError for the DID, any other error as it is.
getCarStream_throw(c) ==
  /\ At(c, "getCarStream", "throw")
  /\ LET f == calls[c]
     IN  Goto(c, [f EXCEPT !.pc = "done",
                           !.error =
                             IF f.err = RepoRootNotFoundError
                             THEN [error |-> "InvalidRequestError",
                                   did |-> f.args.did]
                             ELSE f.err])
  /\ UNCHANGED << now, stores, log >>

\* The returned stream fails: it emits 'error', and the listener registered
\* for it, closeDb, closes the handle.
carStream_error(c) ==
  /\ At(c, "getCarStream", "returned")
  /\ calls[c].carStream = "readable"
  /\ Goto(c, [calls[c] EXCEPT !.carStream = "errored",
                              !.actorDb = IF "error" \in calls[c].on
                                          THEN "closed" ELSE @])
  /\ UNCHANGED << now, stores, log >>

\* The returned stream, read to its end, destroyed or failed, emits 'close',
\* and the listener registered for it, closeDb, closes the handle; nothing
\* is left of the call.
carStream_close(c) ==
  /\ At(c, "getCarStream", "returned")
  /\ calls[c].carStream \in {"readable", "errored"}
  /\ Goto(c, [calls[c] EXCEPT !.carStream = "closed", !.pc = "done",
                              !.actorDb = IF "close" \in calls[c].on
                                          THEN "closed" ELSE @])
  /\ UNCHANGED << now, stores, log >>

CarStep(c) ==
  \/ getCarStream_openDb(c)
  \/ getCarStream_storage_getCarStream(c)
  \/ getCarStream_actorDb_close(c)
  \/ getCarStream_throw(c)
  \/ carStream_error(c)
  \/ carStream_close(c)

NextCar ==
  \E c \in CallIds :
    \/ getCarStream(c, {"did:a", "did:b"}, {NULL, "rev1"})
    \/ getCarStream_openDb(c)
    \/ getCarStream_storage_getCarStream(c)
    \/ getCarStream_actorDb_close(c)
    \/ getCarStream_throw(c)
    \/ carStream_error(c)
    \/ carStream_close(c)
    \/ Respond(c)

\* A call that has started goes on, and a stream that was returned is read
\* to its end, destroyed or fails: it emits 'error' or 'close' in the end.
SpecCar ==
  Init /\ [][NextCar]_vars /\ \A c \in CallIds : WF_vars(CarStep(c))

\* Call c is a getCarStream whose actor database handle is open.
DbOpen(c) == calls[c].op = "getCarStream" /\ calls[c].actorDb = "open"

\* C39: a getCarStream whose handle is open is at storage.getCarStream, or
\* in the catch block before its close, or has returned a stream that has
\* emitted neither 'error' nor 'close'; a call that has thrown has no open
\* handle, and has thrown an InvalidRequestError for its DID exactly when
\* it caught a RepoRootNotFoundError; a stream that has emitted 'error' or
\* 'close' has its handle closed; and every open handle is closed in the
\* end.
C39_DatabaseNeverLeftOpen ==
  /\ [](\A c \in CallIds :
          calls[c].op = "getCarStream" =>
            LET f == calls[c]
            IN  /\ f.actorDb = "open" <=>
                     \/ f.pc \in {"storage.getCarStream", "actorDb.close"}
                     \/ f.pc = "returned" /\ f.carStream = "readable"
                /\ (f.pc = "done" /\ f.error.error # NULL) =>
                     /\ f.actorDb # "open"
                     /\ f.carStream = NULL
                     /\ f.err = RepoRootNotFoundError <=>
                          f.error = [error |-> "InvalidRequestError",
                                     did |-> f.args.did]
                /\ f.carStream \in {"errored", "closed"} =>
                     f.actorDb = "closed")
  /\ \A c \in CallIds : DbOpen(c) ~> ~DbOpen(c)

\* One call has thrown the InvalidRequestError for its DID with its handle
\* closed, while the stream another call returned has failed and closed its
\* handle.
C39_Witness ==
  \E c, d \in CallIds :
    /\ Failed(c, "getCarStream")
    /\ calls[c].error.error = "InvalidRequestError"
    /\ calls[c].actorDb = "closed"
    /\ At(d, "getCarStream", "returned")
    /\ calls[d].carStream = "errored"
    /\ calls[d].actorDb = "closed"

====
